---- MODULE Spec2Model ----
(***************************************************************************)
(* Earth Twin: the projection engine of src/lib/simulation.ts              *)
(* (time-point generator, era classifier, forcing functions, per-point     *)
(* projector, slider helpers) and the pages that run it and show its       *)
(* series (SimulationPage, DataDashboard, ReportPage).                     *)
(*                                                                         *)
(* Numbers.  The engine computes in IEEE doubles.  Here a real quantity is *)
(* an integer count of millionths ("micro" units, Micro = 10^6), so 1.2    *)
(* degrees is 1200000.  Products and quotients of two such quantities are  *)
(* taken exactly and rounded once to the nearest millionth (Mul, MulDiv).  *)
(* Math.round is Round: nearest integer, a tie going towards +infinity.    *)
(* A stored field keeps the precision the code stores it with:             *)
(*   temperature, population, seaLevel   hundredths  (Math.round(x*100)/100)*)
(*   gdp                                 tenths      (Math.round(x*10)/10) *)
(*   the indices and atmosphericCO2ppm   whole numbers (Math.round(x))     *)
(* so temperature = 228 stands for the stored double 2.28.  A value that   *)
(* lies within a millionth of a rounding tie may round the other way in    *)
(* double arithmetic; nothing below depends on such a digit.               *)
(* Math.log, Math.cos, Math.exp and Math.pow are evaluated at the          *)
(* arguments the engine passes them (the time grid is fixed) from tables   *)
(* of their values in millionths.                                          *)
(***************************************************************************)
EXTENDS Integers, Sequences, FiniteSets, TLC

VARIABLES
  params,      \* runSimulation: the argument of the call
  pc,          \* runSimulation: "idle" (not called), "loop" (in the for loop), "done" (returned)
  idx,         \* runSimulation: position of the for-of iterator in timePoints
  data,        \* runSimulation: the local array data
  returned,    \* what the previous call with these parameters returned (NoResult before the first return)
  helper,      \* slider helpers: "idle", "slider" (sliderToYear argument chosen), "year" (yearToSlider argument chosen), "back" (both applied)
  value,       \* sliderToYear: its argument
  year,        \* the year sliderToYear returned, or the argument of yearToSlider
  slider,      \* what yearToSlider returned
  forcingOffset, \* the offset handed to getVolcanicCooling or to the extinction loop
  volcanicResult,    \* what getVolcanicCooling returned for forcingOffset (NotCalled before)
  extinctionResult,     \* extinctionDrop and extinctionEvent after the extinction loop (NotCalled before)
  colourTemp,  \* getTemperatureColor: its argument, in hundredths of a degree
  colour,      \* the hue, saturation and lightness of the string it returned (NotCalled before)
  sessionStorage, \* the items simData and simParams of the session storage (null: absent)
  reportData,  \* ReportPage: the state data
  reportParams, \* ReportPage: the state params
  reportView,  \* ReportPage: "unmounted", or what its last render returned ("fallback" or "report")
  effectRan,   \* ReportPage: whether the mount effect has run since the page was mounted
  route,       \* the path the router shows: "/simulation" or "/report"
  pageParams,  \* SimulationPage: the state params
  memoParams,  \* SimulationPage: the params the memoised series data was computed from
  sliderVal,   \* SimulationPage: the state sliderVal
  isPlaying,   \* SimulationPage: the state isPlaying
  playSpeed,   \* SimulationPage: the state playSpeed
  timers,      \* the live interval timers: the playSpeed each captured, and whether intervalRef.current holds it
  lookupSlider, \* the slider value a render of SimulationPage and DataDashboard is looked at for
  dashboard    \* currentData and chartData of that render (NotCalled before)

vars == <<params, pc, idx, data, returned, helper, value, year, slider,
          forcingOffset, volcanicResult, extinctionResult, colourTemp, colour,
          sessionStorage, reportData, reportParams, reportView, effectRan,
          route, pageParams, memoParams, sliderVal, isPlaying, playSpeed, timers,
          lookupSlider, dashboard>>
simVars == <<params, pc, idx, data, returned>>
helperVars == <<helper, value, year, slider>>
forcingVars == <<forcingOffset, volcanicResult, extinctionResult>>
colourVars == <<colourTemp, colour>>
reportVars == <<sessionStorage, reportData, reportParams, reportView, effectRan,
                route, pageParams, memoParams>>
playVars == <<sliderVal, isPlaying, playSpeed, timers>>
lookupVars == <<lookupSlider, dashboard>>

-----------------------------------------------------------------------------
(* Arithmetic on millionths *)

Micro == 10^6

Max(a, b) == IF a >= b THEN a ELSE b
Min(a, b) == IF a <= b THEN a ELSE b
Abs(a) == IF a < 0 THEN -a ELSE a

\* Math.round(n / d) for d > 0: the nearest integer, ties towards +infinity
Round(n, d) == IF 2 * (n % d) >= d THEN n \div d + 1 ELSE n \div d

\* <<q, r>> with a * b = q * c + r and 0 <= r < c, for a, b >= 0 and c > 0,
\* without forming a * b when it does not fit a machine integer: b is taken
\* digit by digit in base k, the largest of 512, 32, 4 with k * (a + c) < 2^31
DigitBase(n) == IF n < 4194304 THEN 512 ELSE IF n < 67108864 THEN 32 ELSE 4
QuotRem(q, t, c) == <<q + t \div c, t % c>>
RECURSIVE MulDivQR(_, _, _)
MulDivDigit(a, b, c, k, h) == QuotRem(k * h[1], k * h[2] + (b % k) * a, c)
MulDivHigh(a, b, c, k) == MulDivDigit(a, b, c, k, MulDivQR(a, b \div k, c))
MulDivQR(a, b, c) ==
  IF a = 0 \/ b <= 2147483647 \div a
  THEN QuotRem(0, a * b, c)
  ELSE MulDivHigh(a, b, c, DigitBase(a + c))

\* a * b / c rounded to the nearest integer (c > 0; the smaller factor plus c below 2^29)
NearestOf(h, c) == IF 2 * h[2] >= c THEN h[1] + 1 ELSE h[1]
Signed(positive, m) == IF positive THEN m ELSE -m
MulDiv(a, b, c) ==
  Signed((a < 0) = (b < 0),
         NearestOf(MulDivQR(Min(Abs(a), Abs(b)), Max(Abs(a), Abs(b)), c), c))

\* product and quotient of two quantities in millionths
Mul(a, b) == MulDiv(a, b, Micro)
Div(a, b) == IF b > 0 THEN MulDiv(a, Micro, b) ELSE -MulDiv(a, Micro, -b)

\* a whole number n, n thousandths, n hundredths and the ratio n / d, in millionths
Num(n) == n * Micro
Milli(n) == n * 1000
Hundredths(n) == n * 10000
Ratio(n, d) == MulDiv(n, Micro, d)

\* Math.min(cap, n / d) for a whole number cap
MinRatio(cap, n, d) == Ratio(Min(n, cap * d), d)

-----------------------------------------------------------------------------
(* The Math library at the arguments the engine uses *)

\* 10^6 * ln(1 + 3k/100) for k = 0..100
LogTable ==
  <<
     0, 29559, 58269, 86178, 113329, 139762, 165514, 190620, 215111, 239017,
     262364, 285179, 307485, 329304, 350657, 371564, 392042, 412110, 431782, 451076,
     470004, 488580, 506818, 524729, 542324, 559616, 576613, 593327, 609766, 625938,
     641854, 657520, 672944, 688135, 703098, 717840, 732368, 746688, 760806, 774727,
     788457, 802002, 815365, 828552, 841567, 854415, 867100, 879627, 891998, 904218,
     916291, 928219, 940007, 951658, 963174, 974560, 985817, 996949, 1007958, 1018847,
     1029619, 1040277, 1050822, 1061257, 1071584, 1081805, 1091923, 1101940, 1111858, 1121678,
     1131402, 1141033, 1150572, 1160021, 1169381, 1178655, 1187843, 1196948, 1205971, 1214913,
     1223775, 1232560, 1241269, 1249902, 1258461, 1266948, 1275363, 1283708, 1291984, 1300192,
     1308333, 1316408, 1324419, 1332366, 1340250, 1348073, 1355835, 1363537, 1371181, 1378766,
     1386294
  >>

\* Math.log(x) for x = 1 + 3 * t100, t100 a whole number of hundredths
Log(x) == LogTable[(x - Micro) \div 30000 + 1]

\* 10^6 * cos(2 pi i / N) for i = 0..N-1, N = 200, 82, 46
CosTable200 ==
  <<
     1000000, 999507, 998027, 995562, 992115, 987688, 982287, 975917, 968583, 960294,
     951057, 940881, 929776, 917755, 904827, 891007, 876307, 860742, 844328, 827081,
     809017, 790155, 770513, 750111, 728969, 707107, 684547, 661312, 637424, 612907,
     587785, 562083, 535827, 509041, 481754, 453990, 425779, 397148, 368125, 338738,
     309017, 278991, 248690, 218143, 187381, 156434, 125333, 94108, 62791, 31411,
     0, -31411, -62791, -94108, -125333, -156434, -187381, -218143, -248690, -278991,
     -309017, -338738, -368125, -397148, -425779, -453990, -481754, -509041, -535827, -562083,
     -587785, -612907, -637424, -661312, -684547, -707107, -728969, -750111, -770513, -790155,
     -809017, -827081, -844328, -860742, -876307, -891007, -904827, -917755, -929776, -940881,
     -951057, -960294, -968583, -975917, -982287, -987688, -992115, -995562, -998027, -999507,
     -1000000, -999507, -998027, -995562, -992115, -987688, -982287, -975917, -968583, -960294,
     -951057, -940881, -929776, -917755, -904827, -891007, -876307, -860742, -844328, -827081,
     -809017, -790155, -770513, -750111, -728969, -707107, -684547, -661312, -637424, -612907,
     -587785, -562083, -535827, -509041, -481754, -453990, -425779, -397148, -368125, -338738,
     -309017, -278991, -248690, -218143, -187381, -156434, -125333, -94108, -62791, -31411,
     0, 31411, 62791, 94108, 125333, 156434, 187381, 218143, 248690, 278991,
     309017, 338738, 368125, 397148, 425779, 453990, 481754, 509041, 535827, 562083,
     587785, 612907, 637424, 661312, 684547, 707107, 728969, 750111, 770513, 790155,
     809017, 827081, 844328, 860742, 876307, 891007, 904827, 917755, 929776, 940881,
     951057, 960294, 968583, 975917, 982287, 987688, 992115, 995562, 998027, 999507
  >>

CosTable82 ==
  <<
     1000000, 997066, 988280, 973695, 953396, 927502, 896166, 859570, 817929, 771489,
     720522, 665326, 606225, 543568, 477720, 409069, 338017, 264982, 190391, 114683,
     38303, -38303, -114683, -190391, -264982, -338017, -409069, -477720, -543568, -606225,
     -665326, -720522, -771489, -817929, -859570, -896166, -927502, -953396, -973695, -988280,
     -997066, -1000000, -997066, -988280, -973695, -953396, -927502, -896166, -859570, -817929,
     -771489, -720522, -665326, -606225, -543568, -477720, -409069, -338017, -264982, -190391,
     -114683, -38303, 38303, 114683, 190391, 264982, 338017, 409069, 477720, 543568,
     606225, 665326, 720522, 771489, 817929, 859570, 896166, 927502, 953396, 973695,
     988280, 997066
  >>

CosTable46 ==
  <<
     1000000, 990686, 962917, 917211, 854419, 775711, 682553, 576680, 460065, 334880,
     203456, 68242, -68242, -203456, -334880, -460065, -576680, -682553, -775711, -854419,
     -917211, -962917, -990686, -1000000, -990686, -962917, -917211, -854419, -775711, -682553,
     -576680, -460065, -334880, -203456, -68242, 68242, 203456, 334880, 460065, 576680,
     682553, 775711, 854419, 917211, 962917, 990686
  >>

\* Math.cos((2 * Math.PI * n) / period) for n a multiple of 500 and period one of
\* 100000, 41000, 23000
Cos2Pi(n, period) ==
  LET N == period \div 500
      i == ((n \div 500) % N) + 1
  IN CASE N = 200 -> CosTable200[i]
       [] N = 82 -> CosTable82[i]
       [] N = 46 -> CosTable46[i]

\* 10^6 * exp(-q) for q = 0..15 and 10^6 * exp(-r/20) for r = 0..19
ExpTableWhole ==
  <<
     1000000, 367879, 135335, 49787, 18316, 6738, 2479, 912, 335, 123,
     45, 17, 6, 2, 1, 0
  >>

ExpTableFrac ==
  <<
     1000000, 951229, 904837, 860708, 818731, 778801, 740818, 704688, 670320, 637628,
     606531, 576950, 548812, 522046, 496585, 472367, 449329, 427415, 406570, 386741
  >>

\* Math.exp(-n / d) for n >= 0 and n / d a multiple of 1/20
ExpNeg(n, d) ==
  LET m == (20 * n) \div d
  IN IF m \div 20 >= Len(ExpTableWhole) THEN 0
     ELSE Mul(ExpTableWhole[m \div 20 + 1], ExpTableFrac[(m % 20) + 1])

\* Math.round(Math.pow(1000000, v / 1000)) for v = 0..1000
PowTable ==
  <<
     1, 1, 1, 1, 1, 1, 1, 1, 1, 1,
     1, 1, 1, 1, 1, 1, 1, 1, 1, 1,
     1, 1, 1, 1, 1, 1, 1, 1, 1, 1,
     2, 2, 2, 2, 2, 2, 2, 2, 2, 2,
     2, 2, 2, 2, 2, 2, 2, 2, 2, 2,
     2, 2, 2, 2, 2, 2, 2, 2, 2, 2,
     2, 2, 2, 2, 2, 2, 2, 3, 3, 3,
     3, 3, 3, 3, 3, 3, 3, 3, 3, 3,
     3, 3, 3, 3, 3, 3, 3, 3, 3, 3,
     3, 4, 4, 4, 4, 4, 4, 4, 4, 4,
     4, 4, 4, 4, 4, 4, 4, 4, 4, 5,
     5, 5, 5, 5, 5, 5, 5, 5, 5, 5,
     5, 5, 5, 5, 6, 6, 6, 6, 6, 6,
     6, 6, 6, 6, 6, 6, 7, 7, 7, 7,
     7, 7, 7, 7, 7, 7, 8, 8, 8, 8,
     8, 8, 8, 8, 8, 9, 9, 9, 9, 9,
     9, 9, 9, 10, 10, 10, 10, 10, 10, 10,
     10, 11, 11, 11, 11, 11, 11, 12, 12, 12,
     12, 12, 12, 13, 13, 13, 13, 13, 13, 14,
     14, 14, 14, 14, 15, 15, 15, 15, 15, 16,
     16, 16, 16, 17, 17, 17, 17, 17, 18, 18,
     18, 18, 19, 19, 19, 19, 20, 20, 20, 21,
     21, 21, 21, 22, 22, 22, 23, 23, 23, 24,
     24, 24, 25, 25, 25, 26, 26, 26, 27, 27,
     28, 28, 28, 29, 29, 30, 30, 30, 31, 31,
     32, 32, 33, 33, 33, 34, 34, 35, 35, 36,
     36, 37, 37, 38, 38, 39, 39, 40, 41, 41,
     42, 42, 43, 43, 44, 45, 45, 46, 47, 47,
     48, 49, 49, 50, 51, 51, 52, 53, 53, 54,
     55, 56, 56, 57, 58, 59, 60, 61, 61, 62,
     63, 64, 65, 66, 67, 68, 69, 70, 70, 71,
     72, 73, 74, 76, 77, 78, 79, 80, 81, 82,
     83, 84, 86, 87, 88, 89, 90, 92, 93, 94,
     95, 97, 98, 100, 101, 102, 104, 105, 107, 108,
     110, 111, 113, 114, 116, 117, 119, 121, 122, 124,
     126, 128, 129, 131, 133, 135, 137, 139, 141, 143,
     145, 147, 149, 151, 153, 155, 157, 159, 161, 164,
     166, 168, 171, 173, 175, 178, 180, 183, 185, 188,
     191, 193, 196, 199, 201, 204, 207, 210, 213, 216,
     219, 222, 225, 228, 231, 234, 238, 241, 244, 248,
     251, 255, 258, 262, 265, 269, 273, 277, 281, 284,
     288, 292, 296, 301, 305, 309, 313, 318, 322, 327,
     331, 336, 340, 345, 350, 355, 360, 365, 370, 375,
     380, 385, 391, 396, 402, 407, 413, 419, 425, 431,
     437, 443, 449, 455, 461, 468, 474, 481, 488, 494,
     501, 508, 515, 522, 530, 537, 545, 552, 560, 568,
     575, 583, 592, 600, 608, 617, 625, 634, 643, 652,
     661, 670, 679, 689, 698, 708, 718, 728, 738, 748,
     759, 769, 780, 791, 802, 813, 824, 836, 847, 859,
     871, 883, 895, 908, 920, 933, 946, 959, 973, 986,
     1000, 1014, 1028, 1042, 1057, 1072, 1086, 1102, 1117, 1132,
     1148, 1164, 1180, 1197, 1213, 1230, 1247, 1265, 1282, 1300,
     1318, 1337, 1355, 1374, 1393, 1413, 1432, 1452, 1472, 1493,
     1514, 1535, 1556, 1578, 1600, 1622, 1644, 1667, 1690, 1714,
     1738, 1762, 1786, 1811, 1837, 1862, 1888, 1914, 1941, 1968,
     1995, 2023, 2051, 2080, 2109, 2138, 2168, 2198, 2228, 2259,
     2291, 2323, 2355, 2388, 2421, 2455, 2489, 2523, 2559, 2594,
     2630, 2667, 2704, 2742, 2780, 2818, 2858, 2897, 2938, 2979,
     3020, 3062, 3105, 3148, 3192, 3236, 3281, 3327, 3373, 3420,
     3467, 3516, 3565, 3614, 3664, 3715, 3767, 3819, 3873, 3926,
     3981, 4036, 4093, 4150, 4207, 4266, 4325, 4385, 4446, 4508,
     4571, 4634, 4699, 4764, 4831, 4898, 4966, 5035, 5105, 5176,
     5248, 5321, 5395, 5470, 5546, 5623, 5702, 5781, 5861, 5943,
     6026, 6109, 6194, 6281, 6368, 6457, 6546, 6637, 6730, 6823,
     6918, 7015, 7112, 7211, 7311, 7413, 7516, 7621, 7727, 7834,
     7943, 8054, 8166, 8279, 8395, 8511, 8630, 8750, 8872, 8995,
     9120, 9247, 9376, 9506, 9638, 9772, 9908, 10046, 10186, 10328,
     10471, 10617, 10765, 10914, 11066, 11220, 11376, 11535, 11695, 11858,
     12023, 12190, 12359, 12531, 12706, 12882, 13062, 13243, 13428, 13614,
     13804, 13996, 14191, 14388, 14588, 14791, 14997, 15205, 15417, 15631,
     15849, 16069, 16293, 16520, 16749, 16982, 17219, 17458, 17701, 17947,
     18197, 18450, 18707, 18967, 19231, 19498, 19770, 20045, 20324, 20606,
     20893, 21184, 21478, 21777, 22080, 22387, 22699, 23014, 23335, 23659,
     23988, 24322, 24660, 25003, 25351, 25704, 26062, 26424, 26792, 27164,
     27542, 27925, 28314, 28708, 29107, 29512, 29923, 30339, 30761, 31189,
     31623, 32063, 32509, 32961, 33420, 33884, 34356, 34834, 35318, 35810,
     36308, 36813, 37325, 37844, 38371, 38905, 39446, 39994, 40551, 41115,
     41687, 42267, 42855, 43451, 44055, 44668, 45290, 45920, 46559, 47206,
     47863, 48529, 49204, 49888, 50582, 51286, 52000, 52723, 53456, 54200,
     54954, 55719, 56494, 57280, 58076, 58884, 59704, 60534, 61376, 62230,
     63096, 63973, 64863, 65766, 66681, 67608, 68549, 69502, 70469, 71450,
     72444, 73451, 74473, 75509, 76560, 77625, 78705, 79799, 80910, 82035,
     83176, 84333, 85507, 86696, 87902, 89125, 90365, 91622, 92897, 94189,
     95499, 96828, 98175, 99541, 100925, 102329, 103753, 105196, 106660, 108143,
     109648, 111173, 112720, 114288, 115878, 117490, 119124, 120781, 122462, 124165,
     125893, 127644, 129420, 131220, 133045, 134896, 136773, 138676, 140605, 142561,
     144544, 146555, 148594, 150661, 152757, 154882, 157036, 159221, 161436, 163682,
     165959, 168267, 170608, 172982, 175388, 177828, 180302, 182810, 185353, 187932,
     190546, 193197, 195884, 198609, 201372, 204174, 207014, 209894, 212814, 215774,
     218776, 221820, 224905, 228034, 231206, 234423, 237684, 240991, 244343, 247742,
     251189, 254683, 258226, 261818, 265461, 269153, 272898, 276694, 280543, 284446,
     288403, 292415, 296483, 300608, 304789, 309030, 313329, 317687, 322107, 326588,
     331131, 335738, 340408, 345144, 349945, 354813, 359749, 364754, 369828, 374973,
     380189, 385478, 390841, 396278, 401791, 407380, 413048, 418794, 424620, 430527,
     436516, 442588, 448745, 454988, 461318, 467735, 474242, 480839, 487528, 494311,
     501187, 508159, 515229, 522396, 529663, 537032, 544503, 552077, 559758, 567545,
     575440, 583445, 591562, 599791, 608135, 616595, 625173, 633870, 642688, 651628,
     660693, 669885, 679204, 688652, 698232, 707946, 717794, 727780, 737904, 748170,
     758578, 769130, 779830, 790679, 801678, 812831, 824138, 835603, 847227, 859014,
     870964, 883080, 895365, 907821, 920450, 933254, 946237, 959401, 972747, 986279,
     1000000
  >>

\* the least offset o with Math.round((Math.log(o) / Math.log(1000000)) * 1000) >= k, for k = 1..1000
SliderThreshold ==
  <<
     2, 2, 2, 2, 2, 2, 2, 2, 2, 2,
     2, 2, 2, 2, 2, 2, 2, 2, 2, 2,
     2, 2, 2, 2, 2, 2, 2, 2, 2, 2,
     2, 2, 2, 2, 2, 2, 2, 2, 2, 2,
     2, 2, 2, 2, 2, 2, 2, 2, 2, 2,
     3, 3, 3, 3, 3, 3, 3, 3, 3, 3,
     3, 3, 3, 3, 3, 3, 3, 3, 3, 3,
     3, 3, 3, 3, 3, 3, 3, 3, 3, 3,
     4, 4, 4, 4, 4, 4, 4, 4, 4, 4,
     4, 4, 4, 4, 4, 4, 4, 4, 4, 4,
     5, 5, 5, 5, 5, 5, 5, 5, 5, 5,
     5, 5, 5, 5, 5, 5, 6, 6, 6, 6,
     6, 6, 6, 6, 6, 6, 6, 6, 6, 6,
     7, 7, 7, 7, 7, 7, 7, 7, 7, 7,
     7, 8, 8, 8, 8, 8, 8, 8, 8, 8,
     8, 9, 9, 9, 9, 9, 9, 9, 9, 10,
     10, 10, 10, 10, 10, 10, 10, 11, 11, 11,
     11, 11, 11, 11, 12, 12, 12, 12, 12, 12,
     13, 13, 13, 13, 13, 13, 14, 14, 14, 14,
     14, 15, 15, 15, 15, 15, 16, 16, 16, 16,
     16, 17, 17, 17, 17, 18, 18, 18, 18, 19,
     19, 19, 19, 20, 20, 20, 20, 21, 21, 21,
     22, 22, 22, 22, 23, 23, 23, 24, 24, 24,
     25, 25, 25, 26, 26, 26, 27, 27, 27, 28,
     28, 29, 29, 29, 30, 30, 31, 31, 31, 32,
     32, 33, 33, 34, 34, 35, 35, 36, 36, 37,
     37, 38, 38, 39, 39, 40, 40, 41, 41, 42,
     42, 43, 44, 44, 45, 45, 46, 47, 47, 48,
     49, 49, 50, 51, 51, 52, 53, 54, 54, 55,
     56, 57, 57, 58, 59, 60, 61, 61, 62, 63,
     64, 65, 66, 67, 68, 69, 70, 70, 71, 72,
     73, 74, 75, 77, 78, 79, 80, 81, 82, 83,
     84, 85, 87, 88, 89, 90, 91, 93, 94, 95,
     97, 98, 99, 101, 102, 104, 105, 106, 108, 109,
     111, 112, 114, 116, 117, 119, 120, 122, 124, 126,
     127, 129, 131, 133, 134, 136, 138, 140, 142, 144,
     146, 148, 150, 152, 154, 156, 159, 161, 163, 165,
     168, 170, 172, 175, 177, 180, 182, 185, 187, 190,
     192, 195, 198, 200, 203, 206, 209, 212, 215, 218,
     221, 224, 227, 230, 233, 237, 240, 243, 247, 250,
     253, 257, 261, 264, 268, 272, 275, 279, 283, 287,
     291, 295, 299, 303, 307, 312, 316, 320, 325, 329,
     334, 339, 343, 348, 353, 358, 363, 368, 373, 378,
     383, 389, 394, 400, 405, 411, 416, 422, 428, 434,
     440, 446, 452, 459, 465, 471, 478, 485, 491, 498,
     505, 512, 519, 527, 534, 541, 549, 556, 564, 572,
     580, 588, 596, 604, 613, 621, 630, 639, 648, 657,
     666, 675, 684, 694, 704, 713, 723, 733, 744, 754,
     764, 775, 786, 797, 808, 819, 830, 842, 854, 865,
     878, 890, 902, 915, 927, 940, 953, 967, 980, 994,
     1007, 1021, 1036, 1050, 1065, 1079, 1094, 1110, 1125, 1141,
     1157, 1173, 1189, 1206, 1222, 1239, 1257, 1274, 1292, 1310,
     1328, 1346, 1365, 1384, 1403, 1423, 1443, 1463, 1483, 1504,
     1525, 1546, 1567, 1589, 1611, 1634, 1656, 1679, 1703, 1726,
     1750, 1775, 1799, 1824, 1850, 1875, 1902, 1928, 1955, 1982,
     2010, 2038, 2066, 2095, 2124, 2153, 2183, 2214, 2244, 2276,
     2307, 2339, 2372, 2405, 2438, 2472, 2507, 2541, 2577, 2613,
     2649, 2686, 2723, 2761, 2799, 2838, 2878, 2918, 2959, 3000,
     3041, 3084, 3127, 3170, 3214, 3259, 3304, 3350, 3397, 3444,
     3492, 3540, 3590, 3640, 3690, 3742, 3794, 3846, 3900, 3954,
     4009, 4065, 4121, 4179, 4237, 4296, 4356, 4416, 4478, 4540,
     4603, 4667, 4732, 4798, 4865, 4932, 5001, 5070, 5141, 5212,
     5285, 5358, 5433, 5509, 5585, 5663, 5742, 5822, 5903, 5985,
     6068, 6152, 6238, 6325, 6413, 6502, 6592, 6684, 6777, 6871,
     6967, 7064, 7162, 7262, 7363, 7465, 7569, 7674, 7781, 7889,
     7999, 8110, 8223, 8337, 8453, 8571, 8690, 8811, 8934, 9058,
     9184, 9312, 9441, 9572, 9706, 9841, 9978, 10116, 10257, 10400,
     10544, 10691, 10840, 10991, 11143, 11298, 11456, 11615, 11777, 11940,
     12106, 12275, 12446, 12619, 12794, 12972, 13153, 13336, 13521, 13709,
     13900, 14093, 14289, 14488, 14690, 14894, 15101, 15311, 15524, 15740,
     15959, 16181, 16406, 16635, 16866, 17101, 17339, 17580, 17824, 18072,
     18324, 18579, 18837, 19099, 19365, 19634, 19907, 20184, 20465, 20750,
     21038, 21331, 21628, 21929, 22234, 22543, 22856, 23174, 23497, 23824,
     24155, 24491, 24832, 25177, 25528, 25883, 26243, 26608, 26978, 27353,
     27734, 28120, 28511, 28907, 29309, 29717, 30131, 30550, 30975, 31406,
     31842, 32285, 32735, 33190, 33652, 34120, 34594, 35076, 35564, 36058,
     36560, 37069, 37584, 38107, 38637, 39175, 39720, 40272, 40832, 41400,
     41976, 42560, 43152, 43753, 44361, 44978, 45604, 46239, 46882, 47534,
     48195, 48866, 49546, 50235, 50934, 51642, 52361, 53089, 53827, 54576,
     55336, 56105, 56886, 57677, 58480, 59293, 60118, 60954, 61802, 62662,
     63534, 64417, 65314, 66222, 67143, 68077, 69024, 69985, 70958, 71945,
     72946, 73961, 74990, 76033, 77091, 78163, 79251, 80353, 81471, 82604,
     83753, 84919, 86100, 87298, 88512, 89743, 90992, 92258, 93541, 94842,
     96162, 97499, 98856, 100231, 101625, 103039, 104473, 105926, 107399, 108894,
     110408, 111944, 113502, 115081, 116681, 118305, 119950, 121619, 123311, 125026,
     126766, 128529, 130317, 132130, 133968, 135832, 137721, 139637, 141580, 143549,
     145546, 147571, 149624, 151706, 153816, 155956, 158125, 160325, 162555, 164817,
     167110, 169434, 171791, 174181, 176604, 179061, 181552, 184078, 186638, 189235,
     191867, 194537, 197243, 199987, 202769, 205590, 208450, 211349, 214290, 217271,
     220293, 223358, 226465, 229615, 232810, 236048, 239332, 242662, 246037, 249460,
     252930, 256449, 260016, 263634, 267301, 271020, 274790, 278613, 282488, 286418,
     290403, 294443, 298539, 302692, 306903, 311172, 315501, 319890, 324340, 328852,
     333427, 338065, 342768, 347537, 352371, 357273, 362243, 367283, 372392, 377573,
     382825, 388151, 393551, 399025, 404576, 410205, 415911, 421697, 427563, 433511,
     439542, 445657, 451856, 458142, 464516, 470978, 477530, 484173, 490908, 497738,
     504662, 511682, 518801, 526018, 533335, 540755, 548277, 555905, 563638, 571479,
     579429, 587490, 595663, 603949, 612351, 620870, 629507, 638264, 647143, 656146,
     665274, 674529, 683912, 693426, 703073, 712854, 722770, 732825, 743020, 753356,
     763836, 774462, 785236, 796160, 807236, 818465, 829851, 841396, 853101, 864968,
     877001, 889202, 901572, 914114, 926830, 939724, 952797, 966051, 979490, 993117
  >>

-----------------------------------------------------------------------------
(* Defaults, time points, eras, forcing *)

DEFAULT_PARAMS ==
  [co2EmissionRate |-> 50, renewableAdoption |-> 30, populationGrowthRate |-> 50,
   aiRegulation |-> 30, conflictProbability |-> 30, economicExpansion |-> 50,
   geoEngineeringLevel |-> 20, spaceColonization |-> 10]

\* the Set pts with the second loop stepping by 100 years instead of 10
generateTimePointsSetCoarse ==
  {y \in 2025..2125 : TRUE}
    \cup {2125 + 100 * i : i \in 0..4}
    \cup {2525 + 100 * i : i \in 0..95}
    \cup {12025 + 500 * i : i \in 0..180}
    \cup {102025 + 5000 * i : i \in 0..180}

\* the Set pts after the five loops
generateTimePointsSet ==
  {y \in 2025..2125 : TRUE}
    \cup {2125 + 10 * i : i \in 0..40}
    \cup {2525 + 100 * i : i \in 0..95}
    \cup {12025 + 500 * i : i \in 0..180}
    \cup {102025 + 5000 * i : i \in 0..180}

\* Array.from(pts).sort((a, b) => a - b): the number of elements below each element,
\* then the elements by that number
sortRank == [y \in generateTimePointsSet |-> Cardinality({z \in generateTimePointsSet : z < y})]
sorted == [i \in 1..Cardinality(generateTimePointsSet) |->
             CHOOSE y \in generateTimePointsSet : sortRank[y] = i - 1]

\* the five loops writing into an array instead of a Set: boundary years repeat
generateTimePointsNoSet ==
  [i \in 1..101 |-> 2024 + i] \o [i \in 1..41 |-> 2115 + 10 * i]
    \o [i \in 1..96 |-> 2425 + 100 * i] \o [i \in 1..181 |-> 11525 + 500 * i]
    \o [i \in 1..181 |-> 97025 + 5000 * i]

generateTimePoints == sorted

timePoints == generateTimePoints

getEraInclusive(y) ==
  LET offset == y - 2025
  IN IF offset <= 500 THEN [era |-> "anthropocene", eraLabel |-> "Anthropocene"]
     ELSE IF offset <= 10000 THEN [era |-> "post-human", eraLabel |-> "Post-Human Era"]
     ELSE IF offset <= 100000 THEN [era |-> "deep-civilization", eraLabel |-> "Deep Civilization"]
     ELSE [era |-> "geological", eraLabel |-> "Geological Future"]

getEra(y) ==
  LET offset == y - 2025
  IN IF offset < 500 THEN [era |-> "anthropocene", eraLabel |-> "Anthropocene"]
     ELSE IF offset < 10000 THEN [era |-> "post-human", eraLabel |-> "Post-Human Era"]
     ELSE IF offset < 100000 THEN [era |-> "deep-civilization", eraLabel |-> "Deep Civilization"]
     ELSE [era |-> "geological", eraLabel |-> "Geological Future"]

\* cycle100k * 0.5 + cycle41k * 0.3 + cycle23k * 0.2
milankovitchOffset(offsetYears) ==
  LET cycle100k == Cos2Pi(offsetYears, 100000)
      cycle41k == Cos2Pi(offsetYears, 41000)
      cycle23k == Cos2Pi(offsetYears, 23000)
  IN Round(cycle100k * 5 + cycle41k * 3 + cycle23k * 2, 10)

\* the JavaScript value undefined (an absent event name)
undefined == "undefined"

\* the list with Long Valley entered at offset 79,000, 4,000 years after Yellowstone
SUPERVOLCANO_EVENTS_Crowded ==
  << [offset |-> 75000, name |-> "Yellowstone Supervolcano Eruption", cooling |-> 4500000],
     [offset |-> 79000, name |-> "Long Valley Caldera Reactivation", cooling |-> 3000000],
     [offset |-> 570000, name |-> "Toba-Class Mega-Eruption", cooling |-> 6000000],
     [offset |-> 820000, name |-> "East African Rift Mega-Volcanic Event", cooling |-> 3500000] >>

SUPERVOLCANO_EVENTS ==
  << [offset |-> 75000, name |-> "Yellowstone Supervolcano Eruption", cooling |-> 4500000],
     [offset |-> 290000, name |-> "Long Valley Caldera Reactivation", cooling |-> 3000000],
     [offset |-> 570000, name |-> "Toba-Class Mega-Eruption", cooling |-> 6000000],
     [offset |-> 820000, name |-> "East African Rift Mega-Volcanic Event", cooling |-> 3500000] >>

\* the for loop of getVolcanicCooling from event i on: the first event in range returns
RECURSIVE VolcanicFrom(_, _)
VolcanicFrom(offsetYears, i) ==
  IF i > Len(SUPERVOLCANO_EVENTS) THEN [cooling |-> 0, event |-> undefined]
  ELSE LET v == SUPERVOLCANO_EVENTS[i]
           dist == Abs(offsetYears - v.offset)
       IN IF dist < 5000
          THEN [cooling |-> Mul(v.cooling, ExpNeg(dist, 2000)),
                event |-> IF dist < 500 THEN v.name ELSE undefined]
          ELSE VolcanicFrom(offsetYears, i + 1)

RECURSIVE VolcanicFromInclusive(_, _)
VolcanicFromInclusive(offsetYears, i) ==
  IF i > Len(SUPERVOLCANO_EVENTS) THEN [cooling |-> 0, event |-> undefined]
  ELSE LET v == SUPERVOLCANO_EVENTS[i]
           dist == Abs(offsetYears - v.offset)
       IN IF dist < 5000
          THEN [cooling |-> Mul(v.cooling, ExpNeg(dist, 2000)),
                event |-> IF dist <= 500 THEN v.name ELSE undefined]
          ELSE VolcanicFromInclusive(offsetYears, i + 1)

getVolcanicCoolingInclusive(offsetYears) == VolcanicFromInclusive(offsetYears, 1)

getVolcanicCooling(offsetYears) == VolcanicFrom(offsetYears, 1)

EXTINCTION_EVENTS ==
  << [offset |-> 250000, name |-> "Anthropogenic Mass Extinction Peaks", biodiversityDrop |-> 30],
     [offset |-> 570000, name |-> "Mega-Volcanic Mass Extinction", biodiversityDrop |-> 25],
     [offset |-> 800000, name |-> "Oceanic Anoxic Event", biodiversityDrop |-> 20] >>

\* the loop over EXTINCTION_EVENTS from event i on, with the running extinctionDrop
\* (millionths) and extinctionEvent
RECURSIVE ExtinctionFrom(_, _, _, _)
ExtinctionFrom(offset, i, extinctionDrop, extinctionEvent) ==
  IF i > Len(EXTINCTION_EVENTS) THEN [drop |-> extinctionDrop, event |-> extinctionEvent]
  ELSE LET ev == EXTINCTION_EVENTS[i]
           dist == Abs(offset - ev.offset)
       IN IF dist < 20000
          THEN ExtinctionFrom(offset, i + 1,
                 extinctionDrop + Mul(Num(ev.biodiversityDrop), ExpNeg(dist, 5000)),
                 IF dist < 1000 THEN ev.name ELSE extinctionEvent)
          ELSE ExtinctionFrom(offset, i + 1, extinctionDrop, extinctionEvent)

\* the loop leaving at the first event out of range (break in place of continuing)
RECURSIVE ExtinctionFromBreak(_, _, _, _)
ExtinctionFromBreak(offset, i, extinctionDrop, extinctionEvent) ==
  IF i > Len(EXTINCTION_EVENTS) THEN [drop |-> extinctionDrop, event |-> extinctionEvent]
  ELSE LET ev == EXTINCTION_EVENTS[i]
           dist == Abs(offset - ev.offset)
       IN IF dist < 20000
          THEN ExtinctionFromBreak(offset, i + 1,
                 extinctionDrop + Mul(Num(ev.biodiversityDrop), ExpNeg(dist, 5000)),
                 IF dist < 1000 THEN ev.name ELSE extinctionEvent)
          ELSE [drop |-> extinctionDrop, event |-> extinctionEvent]

extinctionBreak(offset) == ExtinctionFromBreak(offset, 1, 0, undefined)

\* lines 232-243: extinctionDrop (millionths) and extinctionEvent after the loop
extinction(offset) == ExtinctionFrom(offset, 1, 0, undefined)

-----------------------------------------------------------------------------
(* The per-point projector: the body of the for loop of runSimulation.     *)
(* p is the parameter struct, offset the years since 2025; temperature,    *)
(* population, conflictIndex, ... passed as arguments are the stored       *)
(* (rounded) values computed earlier in the same iteration.                *)

baseTemp == Milli(1200)
baseGDP == Num(105)
basePop == Milli(8100)
baseBio == Num(72)
baseCO2 == Num(421)

netEmission(p) ==
  Max(0, Ratio(p.co2EmissionRate, 100) - Mul(Ratio(p.renewableAdoption, 100), Milli(750)))

t100(offset) == MinRatio(1, offset, 100)

anthropogenicWarm(p, offset) ==
  IF netEmission(p) > 0
  THEN baseTemp + Mul(Mul(netEmission(p), Milli(4500)), Log(Micro + t100(offset) * 3))
         + Mul(Mul(Ratio(p.co2EmissionRate, 100), Milli(1500)), t100(offset))
  ELSE baseTemp + Mul(Mul(Ratio(p.co2EmissionRate, 100), Milli(500)), t100(offset))

\* the cooling applied from offset 0 at full strength, without the 50-year ramp
geoEngineeringCoolingNoRamp(p, offset) ==
  Mul(Ratio(p.geoEngineeringLevel, 100), Milli(1800))

geoEngineeringCooling(p, offset) ==
  Mul(Mul(Ratio(p.geoEngineeringLevel, 100), MinRatio(1, offset, 50)), Milli(1800))

carbonDrawdown(p, offset) ==
  Min(Milli(1500),
      Mul(Mul(Ratio(offset, 10000), Milli(500)), Ratio(p.renewableAdoption, 100)))

\* the same with offset >= 10000
milankFromTenThousand(offset) ==
  IF offset >= 10000 THEN Mul(milankovitchOffset(offset), Milli(2500)) ELSE 0

milank(offset) ==
  IF offset > 10000 THEN Mul(milankovitchOffset(offset), Milli(2500)) ELSE 0

solarBoost(offset) == Mul(Ratio(offset, 1000000), Milli(300))

civCollapseProb(p, offset) ==
  Mul(Ratio(p.conflictProbability, 100), Milli(400))
    + (IF anthropogenicWarm(p, offset) > Num(4) THEN Milli(400) ELSE 0)

\* lines 154-161: temperature before the floor and the rounding of line 162, given
\* the value prob of the constant civCollapseProb
temperatureGiven(p, offset, prob) ==
  LET t0 == anthropogenicWarm(p, offset) - geoEngineeringCooling(p, offset)
              - carbonDrawdown(p, offset) + milank(offset)
              - getVolcanicCooling(offset).cooling + solarBoost(offset)
      recoveryFactor ==
        Mul(Mul(MinRatio(1, offset - 500, 20000), prob - Milli(500)), Num(2))
  IN IF offset > 500 /\ prob > Milli(500)
     THEN t0 - Mul(recoveryFactor, Num(2))
     ELSE t0

\* temperature before the floor and the rounding of line 162
temperatureBeforeFloor(p, offset) ==
  temperatureGiven(p, offset, civCollapseProb(p, offset))

\* line 162 without Math.max(-2, ...)
temperatureNoFloor(p, offset) == Round(temperatureBeforeFloor(p, offset), 10000)

\* line 162 rounding to one decimal: Math.round(Math.max(-2, temperature) * 10) / 10
temperatureOneDecimal(p, offset) ==
  Round(Max(-Num(2), temperatureBeforeFloor(p, offset)), 100000) * 10

\* Math.round(Math.max(-2, temperature) * 100) / 100, in hundredths
temperature(p, offset) ==
  Round(Max(-Num(2), temperatureBeforeFloor(p, offset)), 10000)

peakCO2(p, offset) ==
  baseCO2 + Mul(Mul(netEmission(p), Num(700)), Min(Micro, t100(offset)))

naturalDraw(p, offset) ==
  Min(Num(300),
      Mul(Mul(Ratio(offset, 100000), Num(200)), Ratio(p.renewableAdoption, 100)))

\* line 167 without Math.max(250, ...)
atmosphericCO2ppmNoFloor(p, offset) ==
  Round(peakCO2(p, offset) - naturalDraw(p, offset), Micro)

atmosphericCO2ppm(p, offset) ==
  Round(Max(Num(250), peakCO2(p, offset) - naturalDraw(p, offset)), Micro)

\* thermSL + milankovitchSL
seaLevelBeforeRounding(offset, temp) ==
  LET thermSL == Mul(Hundredths(temp) - baseTemp, Milli(500))
      milankovitchSL ==
        IF offset > 10000 THEN -Mul(milankovitchOffset(offset), Num(60)) ELSE 0
  IN thermSL + milankovitchSL

\* Math.round((thermSL + milankovitchSL) * 100) / 100, in hundredths
seaLevel(offset, temp) == Round(seaLevelBeforeRounding(offset, temp), 10000)

\* Math.max(0, Math.min(100, baseIce + tempEffect + milankIce))
iceCoverageBeforeRounding(offset, temp) ==
  LET baseIce == Num(12)
      tempEffect == -Mul(Hundredths(temp) - baseTemp, Num(4))
      milankIce ==
        IF offset > 10000 THEN -Mul(milankovitchOffset(offset), Num(20)) ELSE 0
  IN Max(0, Min(Num(100), baseIce + tempEffect + milankIce))

iceCoveragePercent(offset, temp) == Round(iceCoverageBeforeRounding(offset, temp), Micro)

\* Math.max(0.6, 1 - (temperature - 1.5) * 0.08)
stressFactor(temp) ==
  Max(Milli(600), Micro - Mul(Hundredths(temp) - Milli(1500), Milli(80)))

\* lines 183-207: the near-term (then) or the long-run (else) branch of the
\* population, before the floor and the rounding of line 208, given the value
\* prob of the constant civCollapseProb
populationRegime(nearTerm, p, offset, temp, prob) ==
  IF nearTerm
  THEN LET growthRate == Mul(Ratio(p.populationGrowthRate, 100), Milli(13))
       IN Mul(basePop, Micro + Mul(growthRate * offset, stressFactor(temp)))
  ELSE LET peakPop ==
             Mul(basePop,
                 Micro + Mul(Mul(Mul(Ratio(p.populationGrowthRate, 100), Milli(13)),
                                 Num(200)),
                             stressFactor(temp)))
           carryingCap ==
             Mul(Mul(Num(15), Ratio(p.renewableAdoption, 100)),
                 Micro - Div(Hundredths(temp), Num(15))) + Num(5)
           k == Max(Num(1), carryingCap)
           logistic ==
             MulDiv(k, peakPop, peakPop + Mul(k - peakPop, ExpNeg(offset - 200, 200)))
           collapseThreshold == Milli(600)
           crashFactor == Micro - Mul(prob - collapseThreshold, Milli(800))
           recoveryTime == 50000
           recovery == MinRatio(1, offset - 1000, recoveryTime)
           crashed ==
             IF prob > collapseThreshold /\ offset > 1000
             THEN Mul(logistic, crashFactor + Mul(recovery, Micro - crashFactor))
             ELSE logistic
           offWorld ==
             Mul(Mul(Ratio(p.spaceColonization, 100), Ratio(offset, 1000000)), Num(20))
       IN crashed + offWorld

\* if (offset <= 200) { ... } else { ... }
populationGiven(p, offset, temp, prob) ==
  populationRegime(offset <= 200, p, offset, temp, prob)

\* population before the floor and the rounding of line 208
populationBeforeFloor(p, offset, temp) ==
  populationGiven(p, offset, temp, civCollapseProb(p, offset))

\* Math.round(Math.max(0.01, population) * 100) / 100, in hundredths
population(p, offset, temp) ==
  Round(Max(Milli(10), populationBeforeFloor(p, offset, temp)), 10000)

\* gdp of the branch offset < 1000 before the floor and the rounding, in millionths
gdpNearTerm(p, offset, temp) ==
  LET baseGrowthRate == Mul(Ratio(p.economicExpansion, 100), Milli(35))
      aiBoost ==
        Mul(Mul(Micro - Ratio(p.aiRegulation, 100), Milli(25)), MinRatio(1, offset, 100))
      climatePenalty == Max(0, Mul(Hundredths(temp) - Num(2), Milli(25)))
      conflictPenalty ==
        Mul(Mul(Ratio(p.conflictProbability, 100), Milli(20)), MinRatio(1, offset, 100))
      multiplier ==
        Max(Milli(200),
            Micro + (baseGrowthRate + aiBoost - climatePenalty - conflictPenalty)
                      * Min(offset, 200))
  IN Mul(baseGDP, multiplier)

\* lines 220-224: gdp of the long-run branch before the floor and the rounding, given
\* the value prob of the constant civCollapseProb; pop is the stored population.
\* It exceeds the range of millionths and is taken in thousandths.
gdpLongRunGiven(p, offset, pop, prob) ==
  LET normOffset == MinRatio(1, offset, 1000000)
      techMult == Micro + Mul(Mul(Ratio(p.spaceColonization, 100), Num(100)), normOffset)
      civFactor == Max(0, Micro - Mul(prob, Milli(700)))
      perCapita == MulDiv(Mul(techMult, civFactor), Hundredths(pop), basePop)
  IN MulDiv(105 * 5, perCapita, 1000)

\* the long-run branch reading the collapse probability of the first time point
gdpLongRunInitialProb(p, offset, pop) ==
  gdpLongRunGiven(p, offset, pop, civCollapseProb(p, 0))

gdpLongRun(p, offset, pop) ==
  gdpLongRunGiven(p, offset, pop, civCollapseProb(p, offset))

\* Math.round(Math.max(0, gdp) * 10) / 10, in tenths
gdp(p, offset, temp, pop) ==
  IF offset < 1000
  THEN Round(Max(0, gdpNearTerm(p, offset, temp)), 100000)
  ELSE Round(Max(0, gdpLongRun(p, offset, pop)), 100)

\* line 247 with the upper clamp only
biodiversityBeforeClamp(p, offset, temp) ==
  LET tempStress == Max(0, Mul(Hundredths(temp) - Milli(1500), Num(6)))
      conflictStress ==
        Mul(Mul(Ratio(p.conflictProbability, 100), Num(12)), MinRatio(1, offset, 200))
      renewableBoost ==
        Mul(Mul(Ratio(p.renewableAdoption, 100), Num(8)), MinRatio(1, offset, 200))
      geoBoost ==
        Mul(Mul(Ratio(p.geoEngineeringLevel, 100), Num(5)), MinRatio(1, offset, 5000))
      extinctionDrop == extinction(offset).drop
      evolutionBoost ==
        IF offset > 100000 THEN MinRatio(20, offset - 100000, 20000) ELSE 0
  IN baseBio - tempStress - conflictStress + renewableBoost + geoBoost
       - extinctionDrop + evolutionBoost

biodiversity(p, offset, temp) ==
  Round(Max(Num(5), Min(Num(100), biodiversityBeforeClamp(p, offset, temp))), Micro)

\* params.conflictProbability * 0.55 + econStress * 25 + climateRage
conflictIndexBeforeClamp(p, temp) ==
  LET econStress == Max(0, Ratio(50 - p.economicExpansion, 50))
      climateRage == Max(0, Mul(Hundredths(temp) - Milli(2500), Num(8)))
  IN Mul(Num(p.conflictProbability), Milli(550)) + Mul(econStress, Num(25)) + climateRage

\* line 254 without Math.min(100, ...)
conflictIndexNoClamp(p, temp) == Round(conflictIndexBeforeClamp(p, temp), Micro)

conflictIndex(p, temp) ==
  Round(Min(Num(100), conflictIndexBeforeClamp(p, temp)), Micro)

\* lines 259-266: the near-term (then) or the long-run (else) branch of civilizationLevel
civilizationRegime(nearTerm, p, offset, temp, conflict) ==
  IF nearTerm
  THEN Num(50) + Mul(Num(p.economicExpansion - 50), Milli(300))
         + Mul(Num(p.renewableAdoption - 30), Milli(200))
  ELSE LET techProgress ==
             Mul(Min(Num(40), Mul(Ratio(offset, 50000), Num(30))),
                 Ratio(p.spaceColonization, 100) + Milli(300))
           decline ==
             Mul(Num(conflict), Milli(300))
               + Mul(Max(0, Hundredths(temp) - Num(4)), Num(5))
       IN Num(50) + techProgress - decline

\* if (offset < 200) { ... } else { ... }, then Math.max(0, Math.min(100, civilizationLevel))
civilizationLevelBeforeRounding(p, offset, temp, conflict) ==
  Max(0, Min(Num(100), civilizationRegime(offset < 200, p, offset, temp, conflict)))

civilizationLevel(p, offset, temp, conflict) ==
  Round(civilizationLevelBeforeRounding(p, offset, temp, conflict), Micro)

\* Math.max(0, Math.min(100, tempScore * 0.3 + ... + civilizationLevel * 0.2))
earthHealthBeforeRounding(temp, bio, conflict, civ) ==
  LET tempScore == Max(0, Num(100) - Mul(Hundredths(temp) - Milli(1200), Num(18)))
      bioScore == Num(bio)
      conflScore == Num(100 - conflict)
  IN Max(0, Min(Num(100),
           Mul(tempScore, Milli(300)) + Mul(bioScore, Milli(300))
             + Mul(conflScore, Milli(200)) + Mul(Num(civ), Milli(200))))

earthHealthScore(temp, bio, conflict, civ) ==
  Round(earthHealthBeforeRounding(temp, bio, conflict, civ), Micro)

\* extinctionEvent || volcanicEvent: the operands of line 278 exchanged
majorEventExtinctionFirst(offset) ==
  LET volcanicEvent == getVolcanicCooling(offset).event
      extinctionEvent == extinction(offset).event
  IN IF extinctionEvent # undefined THEN extinctionEvent ELSE volcanicEvent

\* volcanicEvent || extinctionEvent
majorEvent(offset) ==
  LET volcanicEvent == getVolcanicCooling(offset).event
      extinctionEvent == extinction(offset).event
  IN IF volcanicEvent # undefined THEN volcanicEvent ELSE extinctionEvent

\* the object pushed for one time point (lines 128-295)
YearData(p, y) ==
  LET offset == y - 2025
      e == getEra(y)
      temp == temperature(p, offset)
      pop == population(p, offset, temp)
      conflict == conflictIndex(p, temp)
      bio == biodiversity(p, offset, temp)
      civ == civilizationLevel(p, offset, temp, conflict)
      entry ==
        [year |-> y,
         temperature |-> temp,
         gdp |-> gdp(p, offset, temp, pop),
         population |-> pop,
         biodiversity |-> bio,
         earthHealthScore |-> earthHealthScore(temp, bio, conflict, civ),
         seaLevel |-> seaLevel(offset, temp),
         conflictIndex |-> conflict,
         iceCoveragePercent |-> iceCoveragePercent(offset, temp),
         atmosphericCO2ppm |-> atmosphericCO2ppm(p, offset),
         civilizationLevel |-> civ,
         era |-> e.era,
         eraLabel |-> e.eraLabel]
  IN IF majorEvent(offset) # undefined
     THEN entry @@ [majorEvent |-> majorEvent(offset)]
     ELSE entry

-----------------------------------------------------------------------------
(* Slider helpers *)

MAX_OFFSET == 1000000

\* Math.round(Math.pow(MAX_OFFSET, v / 1000)) for v <= 1000 (below 0 the power is
\* under 1 and rounds to 1 down to v = -50, to 0 from there)
RoundPow(v) ==
  IF v >= 0 THEN PowTable[v + 1] ELSE IF v >= -50 THEN 1 ELSE 0

\* Math.round((Math.log(offset) / Math.log(MAX_OFFSET)) * 1000) for 1 <= offset < MAX_OFFSET
RoundLogScale(offset) ==
  Cardinality({k \in 1..Len(SliderThreshold) : SliderThreshold[k] <= offset})

\* sliderToYear without its first line
sliderToYearNoLowClamp(v) ==
  IF v >= 1000 THEN 2025 + MAX_OFFSET
  ELSE 2025 + Min(RoundPow(v), MAX_OFFSET)

sliderToYear(v) ==
  IF v <= 0 THEN 2025
  ELSE IF v >= 1000 THEN 2025 + MAX_OFFSET
  ELSE 2025 + Min(RoundPow(v), MAX_OFFSET)

\* yearToSlider taking the logarithm of the year instead of the offset
yearToSliderOfYear(y) ==
  IF y - 2025 <= 0 THEN 0
  ELSE IF y - 2025 >= MAX_OFFSET THEN 1000
  ELSE RoundLogScale(y)

yearToSlider(y) ==
  LET offset == y - 2025
  IN IF offset <= 0 THEN 0
     ELSE IF offset >= MAX_OFFSET THEN 1000
     ELSE RoundLogScale(offset)

-----------------------------------------------------------------------------
(* Inputs *)

NumSamples == 4
SliderMargin == 3
YearMargin == 3

\* parameter structs spread over [0,100]^8
Sample(i) ==
  [co2EmissionRate |-> (37 * i + 64) % 101,
   renewableAdoption |-> (53 * i + 11) % 101,
   populationGrowthRate |-> (71 * i + 5) % 101,
   aiRegulation |-> (29 * i + 90) % 101,
   conflictProbability |-> (43 * i + 58) % 101,
   economicExpansion |-> (61 * i + 22) % 101,
   geoEngineeringLevel |-> (17 * i + 40) % 101,
   spaceColonization |-> (83 * i + 75) % 101]

\* the two opposite corners of the parameter cube: every knob at its most and at
\* its least damaging end
HotCorner ==
  [co2EmissionRate |-> 100, renewableAdoption |-> 0, populationGrowthRate |-> 100,
   aiRegulation |-> 0, conflictProbability |-> 100, economicExpansion |-> 0,
   geoEngineeringLevel |-> 0, spaceColonization |-> 0]
CoolCorner ==
  [co2EmissionRate |-> 0, renewableAdoption |-> 100, populationGrowthRate |-> 0,
   aiRegulation |-> 100, conflictProbability |-> 0, economicExpansion |-> 100,
   geoEngineeringLevel |-> 100, spaceColonization |-> 100]

\* a struct with emissions off and renewables full, the other knobs kept
ZeroNet(p) == [p EXCEPT !.co2EmissionRate = 0, !.renewableAdoption = 100]

BaseParams == {DEFAULT_PARAMS, HotCorner, CoolCorner} \cup {Sample(i) : i \in 1..NumSamples}
\* the defaults with space colonization full: the off-world population shows in
\* the stored population from offset 200 on
OffWorld == [DEFAULT_PARAMS EXCEPT !.spaceColonization = 100]

ParamSpace == BaseParams \cup {ZeroNet(p) : p \in BaseParams} \cup {OffWorld}

SliderInputs == (0 - SliderMargin)..(1000 + SliderMargin)
YearInputs ==
  ((2025 - YearMargin)..(2025 + YearMargin))
    \cup ((2025 + MAX_OFFSET - YearMargin)..(2025 + MAX_OFFSET + YearMargin))
    \cup {2525, 12025, 102025}

-----------------------------------------------------------------------------
(* runSimulation as a state machine: one step per iteration of its for loop *)

NoResult == <<"no result">>

\* const data: YearData[] = [] kept from the previous call instead of being created anew
NewDataKept == data

\* const data: YearData[] = []
NewData == <<>>

\* the JavaScript value null
null == [null |-> TRUE]

\* a helper's result before the helper is called
NotCalled == [called |-> FALSE]

\* nothing called or run yet
SimIdle ==
  /\ pc = "idle"
  /\ idx = 0
  /\ data = <<>>
  /\ returned = NoResult
HelpersIdle ==
  /\ helper = "idle"
  /\ value = 0
  /\ year = 0
  /\ slider = 0
ForcingIdle ==
  /\ forcingOffset = 0
  /\ volcanicResult = NotCalled
  /\ extinctionResult = NotCalled
ColourIdle ==
  /\ colourTemp = 0
  /\ colour = NotCalled
ReportIdle ==
  /\ sessionStorage = [simData |-> null, simParams |-> null]
  /\ reportData = <<>>
  /\ reportParams = null
  /\ reportView = "unmounted"
  /\ effectRan = FALSE
  /\ route = "/simulation"
  /\ pageParams = DEFAULT_PARAMS
  /\ memoParams = DEFAULT_PARAMS
PlayIdle ==
  /\ sliderVal = 0
  /\ isPlaying = FALSE
  /\ playSpeed = 1
  /\ timers = {}
LookupIdle ==
  /\ lookupSlider = 0
  /\ dashboard = NotCalled

Init ==
  /\ params \in ParamSpace
  /\ SimIdle
  /\ HelpersIdle
  /\ ForcingIdle
  /\ ColourIdle
  /\ ReportIdle
  /\ PlayIdle
  /\ LookupIdle

\* runSimulation(params) is entered (again, with the same argument, once it has returned)
Call ==
  /\ pc \in {"idle", "done"}
  /\ pc' = "loop"
  /\ returned' = IF pc = "done" THEN data ELSE returned
  /\ data' = NewData
  /\ idx' = 1
  /\ UNCHANGED <<params, helperVars, forcingVars, colourVars, reportVars, playVars, lookupVars>>

\* the for loop left (break) at the first time point whose civilizationLevel is 0
IterateUntilCollapse ==
  /\ pc = "loop"
  /\ idx <= Len(timePoints)
  /\ IF YearData(params, timePoints[idx]).civilizationLevel = 0
     THEN data' = data /\ idx' = Len(timePoints) + 1
     ELSE data' = Append(data, YearData(params, timePoints[idx])) /\ idx' = idx + 1
  /\ UNCHANGED <<params, pc, returned, helperVars, forcingVars, colourVars, reportVars, playVars, lookupVars>>

\* one iteration of for (const year of timePoints)
Iterate ==
  /\ pc = "loop"
  /\ idx <= Len(timePoints)
  /\ data' = Append(data, YearData(params, timePoints[idx]))
  /\ idx' = idx + 1
  /\ UNCHANGED <<params, pc, returned, helperVars, forcingVars, colourVars, reportVars, playVars, lookupVars>>

\* return data
Return ==
  /\ pc = "loop"
  /\ idx > Len(timePoints)
  /\ pc' = "done"
  /\ UNCHANGED <<params, idx, data, returned, helperVars, forcingVars, colourVars, reportVars, playVars, lookupVars>>

Next == Call \/ Iterate \/ Return

Spec == Init /\ [][Next]_vars

-----------------------------------------------------------------------------
(* The slider helpers applied to chosen arguments *)

InitSlider ==
  /\ params = DEFAULT_PARAMS
  /\ SimIdle
  /\ HelpersIdle
  /\ ForcingIdle
  /\ ColourIdle
  /\ ReportIdle
  /\ PlayIdle
  /\ LookupIdle

\* year = sliderToYear(v)
CallSliderToYear ==
  /\ helper = "idle"
  /\ \E v \in SliderInputs :
       /\ value' = v
       /\ year' = sliderToYear(v)
  /\ helper' = "toYear"
  /\ UNCHANGED <<slider, simVars, forcingVars, colourVars, reportVars, playVars, lookupVars>>

\* slider = yearToSlider(year) on the year sliderToYear returned
CallYearToSliderBack ==
  /\ helper = "toYear"
  /\ slider' = yearToSlider(year)
  /\ helper' = "roundTrip"
  /\ UNCHANGED <<value, year, simVars, forcingVars, colourVars, reportVars, playVars, lookupVars>>

\* slider = yearToSlider(y)
CallYearToSlider ==
  /\ helper = "idle"
  /\ \E y \in YearInputs :
       /\ year' = y
       /\ slider' = yearToSlider(y)
  /\ helper' = "toSlider"
  /\ UNCHANGED <<value, simVars, forcingVars, colourVars, reportVars, playVars, lookupVars>>

NextSlider == CallSliderToYear \/ CallYearToSliderBack \/ CallYearToSlider

SpecSlider == InitSlider /\ [][NextSlider]_vars


-----------------------------------------------------------------------------
(* The volcanic and extinction forcing applied to chosen offsets *)

ProbeStep == 500

\* offsets of the span [0, MAX_OFFSET], ProbeStep years apart
ForcingOffsets == {ProbeStep * k : k \in 0..(MAX_OFFSET \div ProbeStep)}

InitForcing ==
  /\ params = DEFAULT_PARAMS
  /\ SimIdle
  /\ HelpersIdle
  /\ ForcingIdle
  /\ ColourIdle
  /\ ReportIdle
  /\ PlayIdle
  /\ LookupIdle

\* const volcanic = getVolcanicCooling(offset)
CallGetVolcanicCooling ==
  /\ volcanicResult = NotCalled /\ extinctionResult = NotCalled
  /\ \E o \in ForcingOffsets :
       /\ forcingOffset' = o
       /\ volcanicResult' = getVolcanicCooling(o)
  /\ extinctionResult' = NotCalled
  /\ UNCHANGED <<simVars, helperVars, colourVars, reportVars, playVars, lookupVars>>

\* for (const ev of EXTINCTION_EVENTS) { ... }
RunExtinctionLoop ==
  /\ volcanicResult = NotCalled /\ extinctionResult = NotCalled
  /\ \E o \in ForcingOffsets :
       /\ forcingOffset' = o
       /\ extinctionResult' = extinction(o)
  /\ volcanicResult' = NotCalled
  /\ UNCHANGED <<simVars, helperVars, colourVars, reportVars, playVars, lookupVars>>

NextForcing == CallGetVolcanicCooling \/ RunExtinctionLoop

SpecForcing == InitForcing /\ [][NextForcing]_vars

-----------------------------------------------------------------------------
(* The temperature colour ramp applied to chosen temperatures.  The string    *)
(* `hsl(h, s%, l%)` is held as its three numbers, in millionths.              *)

\* const n = Math.min(1, Math.max(0, (temp - 1.2) / 6))
normalizedTemperature(temp) == Min(Micro, Max(0, Div(temp - Milli(1200), Num(6))))

\* the three template strings of lines 334-336 as functions of n
coldRamp(n) ==
  [hue |-> Num(199), saturation |-> Num(89), lightness |-> Num(48) - n * 20]
midRamp(n) ==
  [hue |-> Num(199) - (n - 330000) * 3 * 161, saturation |-> Num(89), lightness |-> Num(48)]
hotRamp(n) ==
  [hue |-> 0, saturation |-> Num(60) + n * 30, lightness |-> Num(50) + n * 10]

getTemperatureColor(temp) ==
  IF normalizedTemperature(temp) < 330000 THEN coldRamp(normalizedTemperature(temp))
  ELSE IF normalizedTemperature(temp) < 660000 THEN midRamp(normalizedTemperature(temp))
  ELSE hotRamp(normalizedTemperature(temp))

MaxColourTemp == 1200

\* temperatures as the series stores them, in hundredths: from the floor of -2.00
ColourTemps == (-200)..MaxColourTemp

InitColour ==
  /\ params = DEFAULT_PARAMS
  /\ SimIdle
  /\ HelpersIdle
  /\ ForcingIdle
  /\ ColourIdle
  /\ ReportIdle
  /\ PlayIdle
  /\ LookupIdle

\* getTemperatureColor(t)
CallGetTemperatureColor ==
  /\ colour = NotCalled
  /\ \E t \in ColourTemps :
       /\ colourTemp' = t
       /\ colour' = getTemperatureColor(Hundredths(t))
  /\ UNCHANGED <<simVars, helperVars, forcingVars, reportVars, playVars, lookupVars>>

NextColour == CallGetTemperatureColor

SpecColour == InitColour /\ [][NextColour]_vars

-----------------------------------------------------------------------------
(***************************************************************************)
(* The report's precondition: SimulationPage stores a run in the session    *)
(* storage and ReportPage loads it.  An item of the storage is null         *)
(* (absent) or the text JSON.stringify produced; a text is kept as the      *)
(* value it denotes.  Only handleGenerateReport writes the storage, so       *)
(* every stored text parses.                                                 *)
(***************************************************************************)
NumReportSamples == 1

\* the parameter structs SimulationPage is set to
ReportParams == {DEFAULT_PARAMS, HotCorner, CoolCorner} \cup {Sample(i) : i \in 1..NumReportSamples}

\* runSimulation(p): the series of all time points
runSimulation(p) == [i \in 1..Len(timePoints) |-> YearData(p, timePoints[i])]

\* const data = useMemo(() => runSimulation(params), [params])
pageData == [p \in ReportParams |-> runSimulation(p)]

JSON_stringify(v) == [text |-> v]
JSON_parse(raw) == raw.text

\* sessionStorage.getItem(key)
getItem(key) == sessionStorage[key]

\* a stored item as a condition: null is falsy, a JSON text (never empty) is truthy
truthy(raw) == raw # null

\* what ReportPage returns for its state: the fallback when finalData, the last
\* element of data, is undefined or params is null, the report otherwise
render(d, p) == IF Len(d) = 0 \/ p = null THEN "fallback" ELSE "report"

\* useMemo(() => runSimulation(params), [params]) in a render with params p, after
\* a render with params before: the series is recomputed when the dependency changed
memoNeverRecomputed(p, before, memo) == memo
useMemo(p, before, memo) == IF p # before THEN p ELSE memo

\* the cleanup of the playback effect: clearInterval(intervalRef.current)
cleanupKeepsTimer(ts) == ts
cleanup(ts) == {t \in ts : ~t.current}

\* the playback effect after a render with isPlaying playing and playSpeed speed:
\* when [isPlaying, playSpeed] changed, the cleanup of the previous effect, then
\* intervalRef.current = setInterval(...) if playing
started(playing, speed, ts) ==
  IF playing
  THEN {[t EXCEPT !.current = FALSE] : t \in ts} \cup {[speed |-> speed, current |-> TRUE]}
  ELSE ts
playbackEffectPlayingOnly(playing, speed, ts) ==
  IF playing # isPlaying THEN started(playing, speed, cleanup(ts)) ELSE ts
playbackEffect(playing, speed, ts) ==
  IF <<playing, speed>> # <<isPlaying, playSpeed>> THEN started(playing, speed, cleanup(ts)) ELSE ts

\* the state updates of one handler of SimulationPage, the render they cause and
\* the effects of that render
PageUpdate(p, v, playing, speed) ==
  /\ pageParams' = p
  /\ memoParams' = useMemo(p, pageParams, memoParams)
  /\ sliderVal' = v
  /\ isPlaying' = playing
  /\ playSpeed' = speed
  /\ timers' = playbackEffect(playing, speed, timers)

\* SimulationPage is unmounted (its effect cleaned up) and its state dropped; the
\* next mount starts from the useState initial values
PageUnmount ==
  /\ pageParams' = DEFAULT_PARAMS
  /\ memoParams' = DEFAULT_PARAMS
  /\ sliderVal' = 0
  /\ isPlaying' = FALSE
  /\ playSpeed' = 1
  /\ timers' = {}

InitReport ==
  /\ params = DEFAULT_PARAMS
  /\ SimIdle
  /\ HelpersIdle
  /\ ForcingIdle
  /\ ColourIdle
  /\ ReportIdle
  /\ PlayIdle
  /\ LookupIdle

\* SimControls onChange: setParams
SetParams ==
  /\ route = "/simulation"
  /\ \E p \in ReportParams : PageUpdate(p, sliderVal, isPlaying, playSpeed)
  /\ UNCHANGED <<sessionStorage, reportData, reportParams, reportView, effectRan, route>>
  /\ UNCHANGED <<simVars, helperVars, forcingVars, colourVars, lookupVars>>

\* a reset that also puts the speed back
handleResetAll ==
  /\ route = "/simulation"
  /\ PageUpdate(DEFAULT_PARAMS, 0, FALSE, 1)
  /\ UNCHANGED <<sessionStorage, reportData, reportParams, reportView, effectRan, route>>
  /\ UNCHANGED <<simVars, helperVars, forcingVars, colourVars, lookupVars>>

\* handleReset
handleReset ==
  /\ route = "/simulation"
  /\ PageUpdate(DEFAULT_PARAMS, 0, FALSE, playSpeed)
  /\ UNCHANGED <<sessionStorage, reportData, reportParams, reportView, effectRan, route>>
  /\ UNCHANGED <<simVars, helperVars, forcingVars, colourVars, lookupVars>>

\* handleGenerateReport: both items are written and the router goes to /report;
\* or the second setItem throws (the storage quota is exceeded by the series),
\* simParams alone is written and the handler is left before navigate.  (A throw
\* of the first setItem changes nothing.)
handleGenerateReport ==
  /\ route = "/simulation"
  /\ \E seriesFits \in BOOLEAN :
       IF seriesFits
       THEN /\ sessionStorage' = [simParams |-> JSON_stringify(pageParams),
                                  simData |-> JSON_stringify(pageData[memoParams])]
            /\ route' = "/report"
            /\ PageUnmount
       ELSE /\ sessionStorage' = [sessionStorage EXCEPT !.simParams = JSON_stringify(pageParams)]
            /\ UNCHANGED <<route, pageParams, memoParams, playVars>>
  /\ UNCHANGED <<reportData, reportParams, reportView, effectRan>>
  /\ UNCHANGED <<simVars, helperVars, forcingVars, colourVars, lookupVars>>

\* /report is opened without Generate Report (the address is entered or reloaded)
OpenReport ==
  /\ route = "/simulation"
  /\ route' = "/report"
  /\ PageUnmount
  /\ UNCHANGED <<sessionStorage, reportData, reportParams, reportView, effectRan>>
  /\ UNCHANGED <<simVars, helperVars, forcingVars, colourVars, lookupVars>>

\* ReportPage is mounted: useState([]) and useState(null), then the first render
MountReportPage ==
  /\ route = "/report"
  /\ reportView = "unmounted"
  /\ reportData' = <<>>
  /\ reportParams' = null
  /\ reportView' = render(<<>>, null)
  /\ effectRan' = FALSE
  /\ UNCHANGED <<sessionStorage, route, pageParams, memoParams, playVars>>
  /\ UNCHANGED <<simVars, helperVars, forcingVars, colourVars, lookupVars>>

\* a mount effect that loads each item that is present
LoadEitherItem ==
  /\ route = "/report"
  /\ reportView # "unmounted"
  /\ ~effectRan
  /\ effectRan' = TRUE
  /\ reportData' = IF truthy(getItem("simData")) THEN JSON_parse(getItem("simData")) ELSE reportData
  /\ reportParams' = IF truthy(getItem("simParams")) THEN JSON_parse(getItem("simParams")) ELSE reportParams
  /\ reportView' = render(reportData', reportParams')
  /\ UNCHANGED <<sessionStorage, route, pageParams, memoParams, playVars>>
  /\ UNCHANGED <<simVars, helperVars, forcingVars, colourVars, lookupVars>>

\* the mount effect of ReportPage and the render its two state updates cause
ReportPageEffect ==
  /\ route = "/report"
  /\ reportView # "unmounted"
  /\ ~effectRan
  /\ effectRan' = TRUE
  /\ IF truthy(getItem("simData")) /\ truthy(getItem("simParams"))
     THEN /\ reportData' = JSON_parse(getItem("simData"))
          /\ reportParams' = JSON_parse(getItem("simParams"))
     ELSE UNCHANGED <<reportData, reportParams>>
  /\ reportView' = render(reportData', reportParams')
  /\ UNCHANGED <<sessionStorage, route, pageParams, memoParams, playVars>>
  /\ UNCHANGED <<simVars, helperVars, forcingVars, colourVars, lookupVars>>

\* navigate('/simulation') from ReportPage: the page is unmounted, SimulationPage mounted
BackToSimulation ==
  /\ route = "/report"
  /\ reportView # "unmounted"
  /\ route' = "/simulation"
  /\ reportView' = "unmounted"
  /\ reportData' = <<>>
  /\ reportParams' = null
  /\ effectRan' = FALSE
  /\ UNCHANGED <<sessionStorage, pageParams, memoParams, playVars>>
  /\ UNCHANGED <<simVars, helperVars, forcingVars, colourVars, lookupVars>>

NextReport ==
  \/ SetParams
  \/ handleReset
  \/ handleGenerateReport
  \/ OpenReport
  \/ MountReportPage
  \/ ReportPageEffect
  \/ BackToSimulation

SpecReport == InitReport /\ [][NextReport]_vars

-----------------------------------------------------------------------------
(***************************************************************************)
(* SimulationPage: the timeline slider and its playback.  A handler is one  *)
(* step: its state updates, the render they cause and the effects of that   *)
(* render.  A live interval timer is a record of the playSpeed its callback *)
(* captured and of whether intervalRef.current holds its id.                *)
(***************************************************************************)
SliderStride == 125

\* the values the Slider component hands to onValueChange (min 0, max 1000, step 1)
SliderStops == {v \in 0..1000 : v % SliderStride = 0} \cup {1, 999, 1000}

\* the val of the era milestone buttons
Milestones == {0, yearToSlider(2525), yearToSlider(12025), yearToSlider(102025), 1000}

\* what a handler of SimulationPage leaves alone besides the page's own state
pageFrame ==
  <<sessionStorage, reportData, reportParams, reportView, effectRan, route,
    simVars, helperVars, forcingVars, colourVars, lookupVars>>

\* Slider onValueChange: setSliderVal(v[0]); setIsPlaying(false)
onValueChange ==
  /\ route = "/simulation"
  /\ \E v \in SliderStops : PageUpdate(pageParams, v, FALSE, playSpeed)
  /\ UNCHANGED pageFrame

\* an era milestone button: setSliderVal(val); setIsPlaying(false)
milestoneClick ==
  /\ route = "/simulation"
  /\ \E val \in Milestones : PageUpdate(pageParams, val, FALSE, playSpeed)
  /\ UNCHANGED pageFrame

\* the rewind button: setSliderVal(0); setIsPlaying(false)
rewind ==
  /\ route = "/simulation"
  /\ PageUpdate(pageParams, 0, FALSE, playSpeed)
  /\ UNCHANGED pageFrame

\* the play/pause button: setIsPlaying(!isPlaying)
togglePlay ==
  /\ route = "/simulation"
  /\ PageUpdate(pageParams, sliderVal, ~isPlaying, playSpeed)
  /\ UNCHANGED pageFrame

\* cycleSpeed: setPlaySpeed((s) => s === 1 ? 5 : s === 5 ? 20 : 1)
cycleSpeed ==
  /\ route = "/simulation"
  /\ PageUpdate(pageParams, sliderVal, isPlaying, IF playSpeed = 1 THEN 5 ELSE IF playSpeed = 5 THEN 20 ELSE 1)
  /\ UNCHANGED pageFrame

\* a tick that never stops the playback
TickNoStop ==
  /\ route = "/simulation"
  /\ \E t \in timers : PageUpdate(pageParams, Min(1000, sliderVal + t.speed), isPlaying, playSpeed)
  /\ UNCHANGED pageFrame

\* a tick of a live interval timer: the updater handed to setSliderVal
Tick ==
  /\ route = "/simulation"
  /\ \E t \in timers :
       IF sliderVal + t.speed >= 1000
       THEN PageUpdate(pageParams, 1000, FALSE, playSpeed)
       ELSE PageUpdate(pageParams, sliderVal + t.speed, isPlaying, playSpeed)
  /\ UNCHANGED pageFrame

NextPage ==
  \/ SetParams
  \/ handleReset
  \/ onValueChange
  \/ milestoneClick
  \/ rewind
  \/ togglePlay
  \/ cycleSpeed
  \/ Tick
  \/ handleGenerateReport

\* one visit of SimulationPage, until Generate Report leaves it
SpecPage == InitReport /\ [][NextPage]_vars

\* playback left to itself: the page is playing, at any slider value and speed,
\* and only the timer acts; setInterval keeps firing it
InitPlayback ==
  /\ params = DEFAULT_PARAMS
  /\ SimIdle
  /\ HelpersIdle
  /\ ForcingIdle
  /\ ColourIdle
  /\ ReportIdle
  /\ LookupIdle
  /\ sliderVal \in 0..1000
  /\ playSpeed \in {1, 5, 20}
  /\ isPlaying = TRUE
  /\ timers = {[speed |-> playSpeed, current |-> TRUE]}

NextPlayback == Tick

SpecPlayback == InitPlayback /\ [][NextPlayback]_vars /\ WF_vars(Tick)

-----------------------------------------------------------------------------
(* What SimulationPage and DataDashboard show for a slider value *)

\* the reducer with <= for <
nearerOrLater(prev, cur, currentYear) ==
  IF Abs(cur.year - currentYear) <= Abs(prev.year - currentYear) THEN cur ELSE prev

\* (prev, cur) => Math.abs(cur.year - currentYear) < Math.abs(prev.year - currentYear) ? cur : prev
nearer(prev, cur, currentYear) ==
  IF Abs(cur.year - currentYear) < Abs(prev.year - currentYear) THEN cur ELSE prev

\* data.reduce(nearer) over the elements lo..hi of d.  The reducer keeps the
\* accumulator unless the next element is strictly nearer, so the fold from
\* the left yields the first of the nearest elements; the same element is
\* computed here from the results of the two halves of the range, which keeps
\* the nesting of the evaluation logarithmic in the length.
RECURSIVE reduce(_, _, _, _)
reduce(d, currentYear, lo, hi) ==
  IF lo = hi THEN d[lo]
  ELSE nearer(reduce(d, currentYear, lo, (lo + hi) \div 2),
              reduce(d, currentYear, (lo + hi) \div 2 + 1, hi), currentYear)

\* currentData of SimulationPage for a non-empty series (DataDashboard's reduce,
\* seeded with data[0], returns the same entry)
currentData(d, currentYear) == reduce(d, currentYear, 1, Len(d))

\* visible.filter((_, i) => i % step === 0)
everyNth(visible, step) ==
  [k \in 1..((Len(visible) + step - 1) \div step) |-> visible[(k - 1) * step + 1]]

\* chartData with Math.floor for Math.ceil
thinnedFloor(visible) ==
  IF Len(visible) <= 300 THEN visible ELSE everyNth(visible, Len(visible) \div 300)

thinned(visible) ==
  IF Len(visible) <= 300 THEN visible ELSE everyNth(visible, (Len(visible) + 299) \div 300)

\* chartData of DataDashboard
chartData(d, currentYear) == thinned(SelectSeq(d, LAMBDA e : e.year <= currentYear))

\* the render of SimulationPage for slider value v: currentData, and the chartData
\* of the DataDashboard it is handed to with currentYear = currentData.year
rendered(d, shown) == [currentData |-> shown, chartData |-> chartData(d, shown.year)]

RenderAt ==
  /\ dashboard = NotCalled
  /\ \E v \in 0..1000 :
       /\ lookupSlider' = v
       /\ dashboard' = rendered(pageData[memoParams], currentData(pageData[memoParams], sliderToYear(v)))
  /\ UNCHANGED <<simVars, helperVars, forcingVars, colourVars, reportVars, playVars>>

NextLookup == RenderAt

SpecLookup == InitReport /\ [][NextLookup]_vars
-----------------------------------------------------------------------------
(* Properties *)

Offset(e) == e.year - 2025
HasEvent(e, name) == "majorEvent" \in DOMAIN e /\ e.majorEvent = name
Finished == pc = "done"

\* C1: for every parameter struct, runSimulation returns a non-empty series whose
\* years increase strictly, starting at 2025 and ending at 1,002,025.
C1_SeriesSpansTheHorizon ==
  Finished =>
    /\ Len(data) > 0
    /\ \A i \in 1..(Len(data) - 1) : data[i].year < data[i + 1].year
    /\ data[1].year = 2025
    /\ data[Len(data)].year = 2025 + 1000000

C1_Witness ==
  /\ Finished
  /\ params = HotCorner
  /\ Len(data) > 1
  /\ data[1].year = 2025

\* C2: in every entry of every series the index fields lie in [0,100]: biodiversity,
\* conflictIndex (whose lower bound the code does not clamp), iceCoveragePercent,
\* civilizationLevel and earthHealthScore.
C2_IndicesInRange ==
  Finished =>
    \A i \in 1..Len(data) :
      /\ data[i].biodiversity \in 0..100
      /\ data[i].conflictIndex \in 0..100
      /\ data[i].iceCoveragePercent \in 0..100
      /\ data[i].civilizationLevel \in 0..100
      /\ data[i].earthHealthScore \in 0..100

\* a series in which the upper clamp of conflictIndex, the lower clamp of
\* iceCoveragePercent and the lower clamp of civilizationLevel are all at work
C2_Witness ==
  /\ Finished
  /\ \E i \in 1..Len(data) :
       /\ data[i].conflictIndex = 100
       /\ conflictIndexBeforeClamp(params, data[i].temperature) > Num(100)
  /\ \E i \in 1..Len(data) : data[i].iceCoveragePercent = 0
  /\ \E i \in 1..Len(data) : data[i].civilizationLevel = 0

\* C3: in every entry of every series the floored fields respect their floors:
\* temperature >= -2, atmosphericCO2ppm >= 250, population >= 0.01, gdp >= 0.
C3_FloorsHold ==
  Finished =>
    \A i \in 1..Len(data) :
      /\ data[i].temperature >= -200
      /\ data[i].atmosphericCO2ppm >= 250
      /\ data[i].population >= 1
      /\ data[i].gdp >= 0

\* a series with an entry whose temperature is held at the floor and an entry whose
\* CO2 is held at the floor
C3_Witness ==
  /\ Finished
  /\ \E i \in 1..Len(data) :
       /\ data[i].temperature = -200
       /\ temperatureBeforeFloor(params, Offset(data[i])) < -Num(2)
  /\ \E i \in 1..Len(data) : data[i].atmosphericCO2ppm = 250

EraOf(offset) ==
  CASE offset \in 0..499 -> "anthropocene"
    [] offset \in 500..9999 -> "post-human"
    [] offset \in 10000..99999 -> "deep-civilization"
    [] offset >= 100000 -> "geological"

C5_EraPartition ==
  Finished =>
    /\ \A i \in 1..Len(data) : data[i].era = EraOf(Offset(data[i]))
    /\ \E i \in 1..Len(data) : data[i].year = 2525 /\ data[i].era = "post-human"
    /\ \E i \in 1..Len(data) : data[i].year = 12025 /\ data[i].era = "deep-civilization"
    /\ \E i \in 1..Len(data) : data[i].year = 102025 /\ data[i].era = "geological"

C5_Witness ==
  /\ Finished
  /\ \E i \in 1..Len(data) : data[i].year = 2525
  /\ \E i \in 1..Len(data) : data[i].year = 2515 /\ data[i].era = "anthropocene"

\* C6 as stated: for every integer s in [0,1000], yearToSlider(sliderToYear(s))
\* differs from s by at most 1.
C6_RoundTripWithinOne ==
  (helper = "roundTrip" /\ value \in 0..1000) => Abs(slider - value) <= 1

\* C6 amended: the round trip is within 1 of s for s = 0, 1 and every s in
\* [223,1000]; for s in [2,222], where sliderToYear rounds to a whole year, it is
\* within 29 of s.
C6_RoundTripAmended ==
  (helper = "roundTrip" /\ value \in 0..1000) =>
    /\ Abs(slider - value) <= 29
    /\ (value <= 1 \/ value >= 223) => Abs(slider - value) <= 1

C6_Witness ==
  /\ helper = "roundTrip"
  /\ value = 223
  /\ slider = 224

\* C7: sliderToYear(0) = 2025 and sliderToYear(1000) = 1,002,025 exactly; slider
\* values below 0 and above 1000 give the same two years; yearToSlider gives 0 for
\* every year <= 2025 and 1000 for every year >= 1,002,025.
C7_SliderEdges ==
  /\ (helper = "toYear" /\ value <= 0) => year = 2025
  /\ (helper = "toYear" /\ value >= 1000) => year = 1002025
  /\ (helper = "toSlider" /\ year <= 2025) => slider = 0
  /\ (helper = "toSlider" /\ year >= 1002025) => slider = 1000

C7_Witness ==
  /\ helper = "toYear"
  /\ value = 0
  /\ year = 2025

\* C8: with the default parameters the entry for 2025 reproduces the baselines:
\* temperature within 0.1 of 1.2, population 8.1, GDP 105, CO2 421 ppm, ice 12 %.
C8_DefaultsReproduceBaselines ==
  (params = DEFAULT_PARAMS /\ Len(data) >= 1) =>
    /\ data[1].year = 2025
    /\ Abs(data[1].temperature - 120) <= 10
    /\ data[1].population = 810
    /\ data[1].gdp = 1050
    /\ data[1].atmosphericCO2ppm = 421
    /\ data[1].iceCoveragePercent = 12

C8_Witness ==
  /\ params = DEFAULT_PARAMS
  /\ pc = "loop"
  /\ Len(data) = 1
  /\ data[1].temperature = 120

Yellowstone == "Yellowstone Supervolcano Eruption"

\* C9: for every parameter struct the entries labelled 'Yellowstone Supervolcano
\* Eruption' are the generated time points within 500 years of offset 75,000 and
\* no others.  "Within" is the code's dist < 500, as in the specification's own
\* account of the label: on the grid that is the one entry at offset 75,000, and
\* the neighbouring entries at 74,500 and 75,500, exactly 500 years away, carry no
\* label.
C9_YellowstoneWithin500 ==
  Finished =>
    \A i \in 1..Len(data) :
      /\ HasEvent(data[i], Yellowstone) <=> Abs(Offset(data[i]) - 75000) < 500
      /\ HasEvent(data[i], Yellowstone) <=> Offset(data[i]) = 75000
      /\ Offset(data[i]) \in {74500, 75500} => "majorEvent" \notin DOMAIN data[i]

C9_Witness ==
  /\ Finished
  /\ \E i \in 1..Len(data) : Offset(data[i]) = 75000 /\ HasEvent(data[i], Yellowstone)
  /\ \E i \in 1..Len(data) : Offset(data[i]) = 74500
  /\ \E i \in 1..Len(data) : Offset(data[i]) = 75500

\* C10: with renewableAdoption = 100 and co2EmissionRate = 0 the net emission is 0
\* and atmosphericCO2ppm stays between the 250 ppm floor and the 421 ppm baseline
\* in every entry.
C10_ZeroNetEmissionCapsCO2 ==
  (params.renewableAdoption = 100 /\ params.co2EmissionRate = 0) =>
    /\ netEmission(params) = 0
    /\ \A i \in 1..Len(data) : data[i].atmosphericCO2ppm \in 250..421

\* a zero-emission run that starts at the baseline and ends on the floor
C10_Witness ==
  /\ Finished
  /\ params.renewableAdoption = 100
  /\ params.co2EmissionRate = 0
  /\ params # CoolCorner
  /\ data[1].atmosphericCO2ppm = 421
  /\ data[Len(data)].atmosphericCO2ppm = 250

\* C11: the generated years follow the non-uniform grid without duplicates: an
\* entry follows its predecessor by 1 year up to offset 100, by 10 years up to
\* offset 500, by 100 years up to offset 10,000, by 500 years up to offset 100,000
\* and by 5,000 years up to offset 1,000,000, and each boundary year 2125, 2525,
\* 12025, 102025 is the year of exactly one entry.
GridStep(offset) ==
  IF offset < 100 THEN 1
  ELSE IF offset < 500 THEN 10
  ELSE IF offset < 10000 THEN 100
  ELSE IF offset < 100000 THEN 500
  ELSE 5000

C11_GridSteps ==
  /\ Len(data) >= 2 =>
       data[Len(data)].year - data[Len(data) - 1].year
         = GridStep(Offset(data[Len(data) - 1]))
  /\ Finished =>
       \A b \in {2125, 2525, 12025, 102025} :
         Cardinality({i \in 1..Len(data) : data[i].year = b}) = 1

\* a finished series in which the step changes from 1 to 10 at 2125 and from 500
\* to 5,000 at 102025
C11_Witness ==
  /\ Finished
  /\ \E i \in 2..(Len(data) - 1) :
       /\ data[i].year = 2125
       /\ data[i - 1].year = 2124
       /\ data[i + 1].year = 2135
  /\ \E i \in 2..(Len(data) - 1) :
       /\ data[i].year = 102025
       /\ data[i - 1].year = 101525
       /\ data[i + 1].year = 107025

\* the event names active at an offset: a supervolcano names the points less than
\* 500 years from its target, an extinction event those less than 1,000 years from its
ActiveVolcanic(offset) ==
  {SUPERVOLCANO_EVENTS[k].name : k \in
     {j \in 1..Len(SUPERVOLCANO_EVENTS) : Abs(offset - SUPERVOLCANO_EVENTS[j].offset) < 500}}
ActiveExtinction(offset) ==
  {EXTINCTION_EVENTS[k].name : k \in
     {j \in 1..Len(EXTINCTION_EVENTS) : Abs(offset - EXTINCTION_EVENTS[j].offset) < 1000}}
Last == data[Len(data)]

\* C12: where a volcanic and an extinction name are both active (offset 570,000:
\* 'Toba-Class Mega-Eruption' and 'Mega-Volcanic Mass Extinction') majorEvent is
\* the volcanic name; where only one is active it is that name; where none is
\* active the entry has no majorEvent.  Stated of each entry as it is pushed.
C12_VolcanicNameWins ==
  Len(data) >= 1 =>
    LET volcanic == ActiveVolcanic(Offset(Last))
        extinct == ActiveExtinction(Offset(Last))
    IN /\ volcanic # {} => "majorEvent" \in DOMAIN Last /\ volcanic = {Last.majorEvent}
       /\ (volcanic = {} /\ extinct # {}) =>
            "majorEvent" \in DOMAIN Last /\ extinct = {Last.majorEvent}
       /\ (volcanic = {} /\ extinct = {}) => "majorEvent" \notin DOMAIN Last
       /\ Offset(Last) = 570000 =>
            /\ volcanic = {"Toba-Class Mega-Eruption"}
            /\ extinct = {"Mega-Volcanic Mass Extinction"}
            /\ Last.majorEvent = "Toba-Class Mega-Eruption"

\* a finished series with the tie at offset 570,000, an entry named by an extinction
\* event alone, one named by a supervolcano alone and one without a name
C12_Witness ==
  /\ Finished
  /\ \E i \in 1..Len(data) :
       Offset(data[i]) = 570000 /\ HasEvent(data[i], "Toba-Class Mega-Eruption")
  /\ \E i \in 1..Len(data) :
       Offset(data[i]) = 800000 /\ HasEvent(data[i], "Oceanic Anoxic Event")
  /\ \E i \in 1..Len(data) :
       Offset(data[i]) = 290000 /\ HasEvent(data[i], "Long Valley Caldera Reactivation")
  /\ \E i \in 1..Len(data) : "majorEvent" \notin DOMAIN data[i]

\* stored is the multiple of unit (in millionths) nearest to the unrounded value v
Nearest(v, stored, unit) == 2 * Abs(stored * unit - v) <= unit

\* how far, in millionths, the stored gdp of the last entry lies from its value
\* before rounding (the long-run branch is held in thousandths)
GdpDeviation ==
  IF Offset(Last) < 1000
  THEN Abs(Last.gdp * 100000
             - Max(0, gdpNearTerm(params, Offset(Last), Last.temperature)))
  ELSE 1000 * Abs(Last.gdp * 100
                    - Max(0, gdpLongRun(params, Offset(Last), Last.population)))

\* the whole-number fields of the last entry are the integers nearest to their
\* values before rounding
WholeIndices ==
  /\ Nearest(Max(Num(5), Min(Num(100),
                biodiversityBeforeClamp(params, Offset(Last), Last.temperature))),
             Last.biodiversity, Micro)
  /\ Nearest(Min(Num(100), conflictIndexBeforeClamp(params, Last.temperature)),
             Last.conflictIndex, Micro)
  /\ Nearest(iceCoverageBeforeRounding(Offset(Last), Last.temperature),
             Last.iceCoveragePercent, Micro)
  /\ Nearest(civilizationLevelBeforeRounding(params, Offset(Last), Last.temperature,
                                              Last.conflictIndex),
             Last.civilizationLevel, Micro)
  /\ Nearest(earthHealthBeforeRounding(Last.temperature, Last.biodiversity,
                                        Last.conflictIndex, Last.civilizationLevel),
             Last.earthHealthScore, Micro)

\* temperature and sea level of the last entry are the hundredths nearest to their
\* values before rounding
TwoDecimalTemperatureAndSeaLevel ==
  /\ Nearest(Max(-Num(2), temperatureBeforeFloor(params, Offset(Last))),
             Last.temperature, 10000)
  /\ Nearest(seaLevelBeforeRounding(Offset(Last), Last.temperature), Last.seaLevel, 10000)

\* C13 as stated: every stored entry has biodiversity, conflictIndex,
\* iceCoveragePercent, civilizationLevel and earthHealthScore as whole numbers and
\* temperature, GDP and sea level each as the unrounded value rounded to the
\* nearest 0.01.
C13_TwoDecimalsIncludingGdp ==
  Len(data) >= 1 =>
    /\ WholeIndices
    /\ TwoDecimalTemperatureAndSeaLevel
    /\ 2 * GdpDeviation <= 10000

\* C13 amended: the five indices are whole numbers, temperature and sea level are
\* the unrounded value rounded to the nearest 0.01, and GDP is the unrounded value
\* rounded to the nearest 0.1 (one decimal).
C13_TwoDecimalsGdpOneDecimal ==
  Len(data) >= 1 =>
    /\ WholeIndices
    /\ TwoDecimalTemperatureAndSeaLevel
    /\ 2 * GdpDeviation <= 100000

\* an entry of either gdp branch whose stored gdp lies more than 0.005 from the
\* unrounded value, as rounding to 0.01 would not leave it
C13_Witness ==
  /\ Len(data) >= 1
  /\ 2 * GdpDeviation > 10000
  /\ Offset(Last) >= 1000
  /\ \E i \in 1..Len(data) :
       /\ Offset(data[i]) < 1000
       /\ 2 * Abs(data[i].gdp * 100000
                    - Max(0, gdpNearTerm(params, Offset(data[i]), data[i].temperature)))
            > 10000

\* the collapse probability as the claim gives it, at the last entry's time point:
\* 0.4 * (conflictProbability / 100), plus 0.4 exactly when the anthropogenic
\* warming term (before geo-engineering) exceeds 4 degrees
StatedCollapseProb ==
  4000 * params.conflictProbability
    + (IF anthropogenicWarm(params, Offset(Last)) > Num(4) THEN Milli(400) ELSE 0)

\* C14: at every time point the collapse probability has the stated value, lies in
\* [0,1], and is the one value behind the temperature recovery, the population
\* crash and the GDP civilization factor: the stored temperature, population and
\* long-run gdp are those computed from the stated value.
C14_OneCollapseProbability ==
  Len(data) >= 1 =>
    /\ civCollapseProb(params, Offset(Last)) = StatedCollapseProb
    /\ StatedCollapseProb \in 0..Micro
    /\ Last.temperature
         = Round(Max(-Num(2), temperatureGiven(params, Offset(Last), StatedCollapseProb)),
                 10000)
    /\ Last.population
         = Round(Max(Milli(10), populationGiven(params, Offset(Last), Last.temperature,
                                                StatedCollapseProb)), 10000)
    /\ Offset(Last) >= 1000 =>
         Last.gdp = Round(Max(0, gdpLongRunGiven(params, Offset(Last), Last.population,
                                                 StatedCollapseProb)), 100)

\* a run whose warming term exceeds 4 degrees with the probability above both
\* thresholds (0.5 for the temperature recovery, 0.6 for the population crash) at a
\* time point past offset 1,000, where all three uses are active, after an early
\* time point at which the warming term was still below 4 degrees
C14_Witness ==
  /\ Len(data) >= 2
  /\ Offset(Last) > 1000
  /\ anthropogenicWarm(params, Offset(Last)) > Num(4)
  /\ StatedCollapseProb > Milli(600)
  /\ anthropogenicWarm(params, Offset(data[2])) < Num(4)
  /\ civCollapseProb(params, Offset(data[2])) = 4000 * params.conflictProbability

\* the supervolcano events whose target is less than 5,000 years from an offset
VolcanicInRange(offset) ==
  {j \in 1..Len(SUPERVOLCANO_EVENTS) : Abs(offset - SUPERVOLCANO_EVENTS[j].offset) < 5000}

\* C15: for every offset in [0, 1,000,000] at most one supervolcano event has its
\* target within 5,000 years (a distance under 5,000, as the code has it), so no
\* event masks another: getVolcanicCooling returns that one event's decayed cooling,
\* with its name exactly when the distance is under 500 years, and cooling 0 without
\* a name when no event is in range.
C15_NoVolcanicMasking ==
  volcanicResult # NotCalled =>
    /\ \A i, j \in 1..Len(SUPERVOLCANO_EVENTS) :
         i # j => Abs(SUPERVOLCANO_EVENTS[i].offset - SUPERVOLCANO_EVENTS[j].offset) >= 10000
    /\ Cardinality(VolcanicInRange(forcingOffset)) <= 1
    /\ VolcanicInRange(forcingOffset) = {} =>
         volcanicResult.cooling = 0 /\ volcanicResult.event = undefined
    /\ \A j \in VolcanicInRange(forcingOffset) :
         LET v == SUPERVOLCANO_EVENTS[j]
             dist == Abs(forcingOffset - v.offset)
         IN /\ volcanicResult.cooling = Mul(v.cooling, ExpNeg(dist, 2000))
            /\ dist < 500 => volcanicResult.event = v.name
            /\ dist >= 500 => volcanicResult.event = undefined

\* the third list entry returned, unnamed, 4,500 years from its target
C15_Witness ==
  /\ volcanicResult # NotCalled
  /\ forcingOffset = 574500
  /\ VolcanicInRange(forcingOffset) = {3}
  /\ volcanicResult.cooling > 0
  /\ volcanicResult.event = undefined

\* the extinction events whose target is less than 20,000 years from an offset, and
\* the contribution of event j: biodiversityDrop * exp(-dist / 5000) when in range
ExtinctionInRange(offset) ==
  {j \in 1..Len(EXTINCTION_EVENTS) : Abs(offset - EXTINCTION_EVENTS[j].offset) < 20000}
ExtinctionContribution(offset, j) ==
  IF j \in ExtinctionInRange(offset)
  THEN Mul(Num(EXTINCTION_EVENTS[j].biodiversityDrop),
           ExpNeg(Abs(offset - EXTINCTION_EVENTS[j].offset), 5000))
  ELSE 0

\* C16: the extinction penalty at an offset is the sum of the contributions of all
\* the extinction events whose target is within 20,000 years (a distance under
\* 20,000), whatever their place in the list, 0 when there is none, and a name is
\* attached exactly when some event's target is within 1,000 years (under 1,000),
\* the name of such an event.
C16_ExtinctionPenaltySums ==
  extinctionResult # NotCalled =>
    /\ extinctionResult.drop
         = ExtinctionContribution(forcingOffset, 1) + ExtinctionContribution(forcingOffset, 2)
             + ExtinctionContribution(forcingOffset, 3)
    /\ ExtinctionInRange(forcingOffset) = {} => extinctionResult.drop = 0
    /\ extinctionResult.event # undefined <=> ActiveExtinction(forcingOffset) # {}
    /\ extinctionResult.event # undefined =>
         extinctionResult.event \in ActiveExtinction(forcingOffset)

\* the last list entry contributing, unnamed, 19,500 years from its target
C16_Witness ==
  /\ extinctionResult # NotCalled
  /\ forcingOffset = 819500
  /\ ExtinctionInRange(forcingOffset) = {3}
  /\ extinctionResult.drop > 0
  /\ extinctionResult.event = undefined

\* C17: getTemperatureColor is continuous at its breakpoints: at normalized
\* temperature 0.33 the colour returned (the branch at and above) is the one the
\* branch below gives there, and likewise at 0.66.
C17_RampContinuous ==
  colour # NotCalled =>
    /\ normalizedTemperature(Hundredths(colourTemp)) = 330000 => colour = coldRamp(330000)
    /\ normalizedTemperature(Hundredths(colourTemp)) = 660000 => colour = midRamp(660000)

\* C18 as stated: the generator yields approximately 700 points (700 to the nearest
\* hundred: between 650 and 750), and every series has that one fixed number of
\* entries whatever the parameters.
C18_AboutSevenHundredPoints ==
  Finished =>
    /\ Len(data) = Len(timePoints)
    /\ Len(data) \in 650..750

\* the series returned for the default parameters, and the fields of an entry that
\* are not among the ten numeric indicators
DefaultSeries == runSimulation(DEFAULT_PARAMS)
NonPolicy(e) ==
  <<e.year, e.era, e.eraLabel, IF "majorEvent" \in DOMAIN e THEN e.majorEvent ELSE undefined>>

\* C19: any two parameter structs give series of the same length with, index by
\* index, the same year, era, eraLabel and majorEvent (present in both or in
\* neither, with the same name).  Stated of every series against the series of the
\* default parameters, entry by entry as it is pushed: two series that both agree
\* with that one agree with each other.
C19_NonPolicyFieldsIgnoreParams ==
  /\ Len(data) >= 1 =>
       /\ Len(data) <= Len(DefaultSeries)
       /\ NonPolicy(Last) = NonPolicy(DefaultSeries[Len(data)])
  /\ Finished => Len(data) = Len(DefaultSeries)

\* a finished series for other parameters whose named entry at offset 570,000
\* differs from the default series in its indicators
C19_Witness ==
  /\ Finished
  /\ params = HotCorner
  /\ \E i \in 1..Len(data) :
       /\ HasEvent(data[i], "Toba-Class Mega-Eruption")
       /\ HasEvent(DefaultSeries[i], "Toba-Class Mega-Eruption")
       /\ data[i].temperature # DefaultSeries[i].temperature
       /\ data[i].civilizationLevel # DefaultSeries[i].civilizationLevel

\* both items are in the session storage
BothStored == getItem("simData") # null /\ getItem("simParams") # null

\* C20: ReportPage loads the stored run only when both simData and simParams are
\* in the session storage (with either missing, neither its data nor its params
\* is loaded); it shows the report only when a non-empty series and the stored
\* parameters are loaded, and the fallback in every other case, whatever the
\* storage holds.
C20_ReportPrecondition ==
  /\ route = "/report" /\ ~BothStored => reportData = <<>> /\ reportParams = null
  /\ reportView = "report" =>
       /\ effectRan /\ BothStored
       /\ Len(reportData) >= 1
       /\ reportData = JSON_parse(getItem("simData"))
       /\ reportParams = JSON_parse(getItem("simParams"))
  /\ reportView # "unmounted" /\ ~(Len(reportData) >= 1 /\ reportParams # null) =>
       reportView = "fallback"
  /\ reportView \in {"unmounted", "fallback", "report"}

\* the effect has run with simParams stored and simData missing, and the page
\* shows the fallback with nothing loaded
C20_Witness ==
  /\ effectRan
  /\ getItem("simParams") # null
  /\ getItem("simData") = null
  /\ reportView = "fallback"
  /\ reportParams = null

\* a step in which Generate Report writes the storage and goes to the report
GenerateReportStores ==
  /\ route = "/simulation"
  /\ route' = "/report"
  /\ sessionStorage' # sessionStorage

\* C21: whenever Generate Report stores simParams and simData, after any sequence
\* of parameter changes, resets, slider moves and playback ticks, the stored series
\* is runSimulation of the stored parameters, never the series of earlier parameters.
C21_StoredSeriesOfStoredParams ==
  [][GenerateReportStores =>
       JSON_parse(sessionStorage'.simData) = pageData[JSON_parse(sessionStorage'.simParams)]]_vars

\* a run stored after the parameters were changed away from the defaults
C21_Witness ==
  /\ route = "/report"
  /\ getItem("simParams") = JSON_stringify(HotCorner)
  /\ getItem("simData") = JSON_stringify(pageData[HotCorner])

\* C26: the slider value is always in [0,1000]; a playback tick adds playSpeed to
\* it, and the tick whose sum reaches or passes 1000 sets it to exactly 1000 and
\* stops the playback.
C26_PlaybackBound ==
  /\ [](sliderVal \in 0..1000)
  /\ [][Tick =>
         /\ playSpeed \in {1, 5, 20}
         /\ sliderVal' = IF sliderVal + playSpeed >= 1000 THEN 1000 ELSE sliderVal + playSpeed
         /\ sliderVal + playSpeed >= 1000 => ~isPlaying']_vars

\* playback at speed 20 has brought the slider, by ticks of speed 1, to 996: the
\* next tick would pass 1000
C26_Witness ==
  /\ isPlaying
  /\ sliderVal = 996
  /\ playSpeed = 20
  /\ timers # {}

\* C27: playback left to itself, from any state with isPlaying true, reaches
\* sliderVal = 1000 with isPlaying false and stays there; started with the slider
\* already at 1000, it stops with its first tick.
C27_PlaybackTerminates ==
  /\ <>[](sliderVal = 1000 /\ ~isPlaying /\ timers = {})
  /\ [][sliderVal = 1000 /\ isPlaying => sliderVal' = 1000 /\ ~isPlaying']_vars

\* playback has stopped at the end of the timeline with no timer left
C27_Witness ==
  /\ sliderVal = 1000
  /\ ~isPlaying
  /\ timers = {}
  /\ playSpeed = 5

\* C28: whatever the interleaving of play/pause, speed changes, slider moves,
\* milestone clicks, rewind and reset, at most one interval timer is live and none
\* while isPlaying is false (so no tick can move the slider after a pause or a
\* manual positioning); while playing, the one live timer is the one of the
\* current speed, the timer of the previous speed having been replaced.
C28_TimerDiscipline ==
  /\ Cardinality(timers) <= 1
  /\ ~isPlaying => timers = {} /\ ~ENABLED Tick
  /\ isPlaying => timers = {[speed |-> playSpeed, current |-> TRUE]}

\* the speed was changed while playing (two ticks of speed 1 have moved the slider)
C28_Witness ==
  /\ isPlaying
  /\ sliderVal = 2
  /\ playSpeed = 5
  /\ timers = {[speed |-> 5, current |-> TRUE]}

\* C29: handleReset leaves params = DEFAULT_PARAMS, sliderVal = 0 and isPlaying
\* false and does not change playSpeed; the rewind button leaves sliderVal = 0 and
\* isPlaying false and changes neither params nor playSpeed.
C29_ResetAndRewind ==
  /\ [][handleReset =>
         /\ pageParams' = DEFAULT_PARAMS
         /\ sliderVal' = 0
         /\ ~isPlaying'
         /\ playSpeed' = playSpeed]_vars
  /\ [][rewind =>
         /\ sliderVal' = 0
         /\ ~isPlaying'
         /\ pageParams' = pageParams
         /\ playSpeed' = playSpeed]_vars

\* the page is back at the defaults and at the start with the speed still 20, after
\* other parameters had been in use (a report for them was attempted)
C29_Witness ==
  /\ pageParams = DEFAULT_PARAMS
  /\ sliderVal = 0
  /\ ~isPlaying
  /\ playSpeed = 20
  /\ route = "/simulation"
  /\ getItem("simParams") = JSON_stringify(HotCorner)

\* the series the page shows, and the distance of an entry from the slider's year
ShownSeries == pageData[memoParams]
Distance(e) == Abs(e.year - sliderToYear(lookupSlider))

\* C22: for every slider value in [0,1000] currentData is defined and is an entry
\* of the series that is nearest in year to sliderToYear(sliderVal); of two
\* equally near entries it is the earlier one.
C22_NearestEntry ==
  dashboard # NotCalled =>
    /\ \E i \in 1..Len(ShownSeries) : ShownSeries[i] = dashboard.currentData
    /\ \A i \in 1..Len(ShownSeries) :
         /\ Distance(dashboard.currentData) <= Distance(ShownSeries[i])
         /\ Distance(dashboard.currentData) = Distance(ShownSeries[i]) =>
              dashboard.currentData.year <= ShownSeries[i].year

\* the slider's year lies midway between two entries and the earlier one is shown
C22_Witness ==
  /\ dashboard # NotCalled
  /\ \E i \in 1..Len(ShownSeries) :
       /\ ShownSeries[i].year > dashboard.currentData.year
       /\ Distance(ShownSeries[i]) = Distance(dashboard.currentData)

\* C23: chartData has at most 300 entries, all of them entries of the series with
\* year <= currentYear, in the order of the series, and the first is the entry of
\* the epoch year.
C23_ChartThinning ==
  dashboard # NotCalled =>
    /\ Len(dashboard.chartData) \in 1..300
    /\ dashboard.chartData[1] = ShownSeries[1]
    /\ dashboard.chartData[1].year = 2025
    /\ \A k \in 1..Len(dashboard.chartData) :
         /\ dashboard.chartData[k].year <= dashboard.currentData.year
         /\ \E i \in 1..Len(ShownSeries) : ShownSeries[i] = dashboard.chartData[k]
         /\ k > 1 => dashboard.chartData[k - 1].year < dashboard.chartData[k].year

\* the whole series is visible (596 entries) and every second entry is charted
C23_Witness ==
  /\ dashboard # NotCalled
  /\ lookupSlider = 1000
  /\ dashboard.currentData = ShownSeries[Len(ShownSeries)]
  /\ Len(dashboard.chartData) = 298
  /\ dashboard.chartData[2] = ShownSeries[3]

\* the era an entry is classified in
ShownAt(y, era) == dashboard.currentData.year = y /\ dashboard.currentData.era = era

\* C30 as stated: after a click on '+500', '+10K' or '+100K' the entry displayed is
\* the entry of the boundary year 2525, 12025 or 102025, classified in the era that
\* begins there; '2025' and '+1M' display the first and the last entry.
C30_MilestonesLandOnEra ==
  dashboard # NotCalled =>
    /\ lookupSlider = 0 => dashboard.currentData = ShownSeries[1]
    /\ lookupSlider = yearToSlider(2525) => ShownAt(2525, "post-human")
    /\ lookupSlider = yearToSlider(12025) => ShownAt(12025, "deep-civilization")
    /\ lookupSlider = yearToSlider(102025) => ShownAt(102025, "geological")
    /\ lookupSlider = 1000 => dashboard.currentData = ShownSeries[Len(ShownSeries)]

\* the same without the '+100K' button
C30_OtherMilestones ==
  dashboard # NotCalled =>
    /\ lookupSlider = 0 => dashboard.currentData = ShownSeries[1]
    /\ lookupSlider = yearToSlider(2525) => ShownAt(2525, "post-human")
    /\ lookupSlider = yearToSlider(12025) => ShownAt(12025, "deep-civilization")
    /\ lookupSlider = 1000 => dashboard.currentData = ShownSeries[Len(ShownSeries)]

\* the temperature of the spec's formula with the astronomical contribution left
\* out, before the floor and the rounding
TemperatureWithoutAstronomical(p, offset) ==
  anthropogenicWarm(p, offset) - geoEngineeringCooling(p, offset) - carbonDrawdown(p, offset)
    - getVolcanicCooling(offset).cooling + solarBoost(offset)
    - (IF offset > 500 /\ civCollapseProb(p, offset) > Milli(500)
       THEN Mul(Mul(Mul(MinRatio(1, offset - 500, 20000), civCollapseProb(p, offset) - Milli(500)),
                    Num(2)), Num(2))
       ELSE 0)

\* sea level and ice coverage as functions of the stored temperature alone: the
\* stored sea level is (temperature - 1.2) * 0.5 rounded to hundredths, the stored
\* ice coverage clamp(12 - 4 * (temperature - 1.2), 0, 100) rounded to a whole
ThermalOnly(e) ==
  /\ Abs(2 * e.seaLevel - (e.temperature - 120)) <= 1
  /\ 2 * Abs(100 * e.iceCoveragePercent - Max(0, Min(10000, 1200 - 4 * (e.temperature - 120)))) <= 100

\* C24: up to and including offset 10,000 the astronomical term is absent: the
\* temperature is the one without it, and sea level and ice coverage are the
\* functions of the stored temperature alone.
C24_NoAstronomicalUpToTenThousand ==
  Len(data) >= 1 /\ Offset(Last) <= 10000 =>
    /\ Last.temperature = Round(Max(-Num(2), TemperatureWithoutAstronomical(params, Offset(Last))), 10000)
    /\ ThermalOnly(Last)

\* the entry of offset 10,000, where the astronomical blend is not zero, has just
\* been followed by the entry of offset 10,500, whose sea level carries the term
C24_Witness ==
  /\ Len(data) >= 2
  /\ Offset(data[Len(data) - 1]) = 10000
  /\ milankovitchOffset(10000) # 0
  /\ ThermalOnly(data[Len(data) - 1])
  /\ Offset(Last) = 10500
  /\ ~ThermalOnly(Last)

\* the stored population and civilizationLevel of entry e are both the values of
\* the near-term branch, or both the values of the long-run branch
BothOfRegime(nearTerm, e) ==
  /\ e.population
       = Round(Max(Milli(10), populationRegime(nearTerm, params, Offset(e), e.temperature,
                                               civCollapseProb(params, Offset(e)))), 10000)
  /\ e.civilizationLevel
       = Round(Max(0, Min(Num(100), civilizationRegime(nearTerm, params, Offset(e), e.temperature,
                                                       e.conflictIndex))), Micro)

\* C25 as stated: population and civilization level change regime at the same
\* offset: every entry has both from the near-term formula (offsets up to 200) or
\* both from the long-run formula (offsets from 200 on); the entry at offset 200
\* may have either, but the same for both.
C25_SameRegime ==
  Len(data) >= 1 =>
    \/ Offset(Last) <= 200 /\ BothOfRegime(TRUE, Last)
    \/ Offset(Last) >= 200 /\ BothOfRegime(FALSE, Last)

\* the same for every entry but the one at offset 200
C25_SameRegimeOffTwoHundred ==
  Len(data) >= 1 /\ Offset(Last) # 200 => C25_SameRegime

====
